---- MODULE Spec2Model ----
(***************************************************************************)
(* Model of the Suno prompt generator: the Lyrics field builder            *)
(* (_parse_suno_lyrics, _get_nearest_section_type, _build_lyrics_output),   *)
(* the Style truncation of generate_outputs and the refiner agent's final  *)
(* answer parsing (run_refinement_agent).                                   *)
(*                                                                          *)
(* Strings.  A line of text is a sequence of tokens (a bracket, a colon, a  *)
(* blank, a numeral or a word); a string is the non-empty sequence of its   *)
(* lines, i.e. str.split("\n"), so the empty string is << <<>> >>.          *)
(***************************************************************************)
EXTENDS Integers, Sequences, FiniteSets, TLC

VARIABLES
    pc,             \* which function the call is in / has returned from
    sections,       \* argument sections of _build_lyrics_output
    suno_lyrics,    \* argument suno_lyrics (pasted text)
    lyric_template, \* argument lyric_template
    lyrics_output,  \* returned Lyrics field
    use_llm,        \* argument use_llm of generate_outputs
    api_key,        \* argument api_key ("" when absent)
    style_parts,    \* the fragments the static path joins into the Style field
    llm_reply,      \* response.choices[0].message.content of the LLM path
    cache_entry,    \* the cache file's entry under the selections hash
    style_output,   \* returned Style field
    cached,         \* returned cached flag
    style_text,     \* argument style_text of run_refinement_agent
    lyrics_text,    \* argument lyrics_text
    round_num,      \* tool-calling rounds completed
    messages,       \* the chat message list
    final_response, \* the final model answer, None until there is one
    requests,       \* chat-completion requests issued
    refined_style,  \* returned refined_style
    refined_lyrics, \* returned refined_lyrics
    notice,         \* what the page shows the user after a handler ran
    ops,            \* handlers run so far in this session
    history,        \* the "songs" list of songs_history.json
    cache,          \* prompt_cache.json: its entries in insertion order
    song_sections,  \* st.session_state.sections
    issued,         \* the ids uuid4 has handed out so far
    local,          \* per concurrent call: where it is and the list or dict it loaded
    iter_versions,  \* st.session_state.iter_versions
    iter_suggestions, \* st.session_state.iter_suggestions
    iter_active,    \* st.session_state.iter_active
    selections,     \* prompt generator: current_selections, the widget values
    last_selections, \* st.session_state["last_selections"]
    shown_prompt,   \* prompt, as generated by the last run of the prompt page
    refined_prompt, \* st.session_state["refined_prompt"], None when absent
    refine_score,   \* st.session_state["refine_score"], None when absent
    refine_reasoning \* st.session_state["refine_reasoning"], None when absent

lyricsVars == <<sections, suno_lyrics, lyric_template, lyrics_output>>

styleVars == <<use_llm, api_key, style_parts, llm_reply, cache_entry,
               style_output, cached>>

refinerVars == <<style_text, lyrics_text, round_num, messages, final_response,
                 requests, refined_style, refined_lyrics>>

appVars == <<notice, ops, history, cache, song_sections, issued>>
iterVars == <<iter_versions, iter_suggestions, iter_active>>
promptVars == <<selections, last_selections, shown_prompt, refined_prompt,
                refine_score, refine_reasoning>>
sessionVars == <<local, iterVars, promptVars>>

----------------------------------------------------------------------------
(* Bounds of the explored inputs *)
MaxSections == 2
MaxLines == 4
MaxParts == 2

----------------------------------------------------------------------------
(* Generic string helpers *)

Min(S) == CHOOSE x \in S : \A y \in S : x <= y
Max(S) == CHOOSE x \in S : \A y \in S : x >= y

\* the n-th smallest element of a set of numbers
NthOf(S, n) == CHOOSE x \in S : Cardinality({y \in S : y < x}) = n - 1

EmptyStr == << <<>> >>

Whitespace == {" "}
Digits == {"2"}

\* str.lstrip / rstrip / strip of one line, for a set of characters
LStripLine(s, chars) ==
    IF \A i \in 1..Len(s) : s[i] \in chars THEN <<>>
    ELSE SubSeq(s, CHOOSE i \in 1..Len(s) :
                      /\ s[i] \notin chars
                      /\ \A j \in 1..(i - 1) : s[j] \in chars,
                Len(s))

RStripLine(s, chars) ==
    IF \A i \in 1..Len(s) : s[i] \in chars THEN <<>>
    ELSE SubSeq(s, 1, CHOOSE i \in 1..Len(s) :
                         /\ s[i] \notin chars
                         /\ \A j \in (i + 1)..Len(s) : s[j] \in chars)

StripLine(s, chars) == RStripLine(LStripLine(s, chars), chars)

\* str.strip() of a multi-line string: whitespace and newlines go from both ends
StripText(t) ==
    LET keep == {i \in 1..Len(t) : StripLine(t[i], Whitespace) # <<>>}
    IN  IF keep = {} THEN EmptyStr
        ELSE LET a == Min(keep)
                 b == Max(keep)
                 mid == SubSeq(t, a, b)
             IN  IF a = b THEN << StripLine(t[a], Whitespace) >>
                 ELSE [i \in 1..Len(mid) |->
                          IF i = 1 THEN LStripLine(mid[i], Whitespace)
                          ELSE IF i = Len(mid) THEN RStripLine(mid[i], Whitespace)
                          ELSE mid[i]]

\* "\n".join(list of strings)
RECURSIVE JoinLines(_)
JoinLines(strs) ==
    IF strs = <<>> THEN EmptyStr
    ELSE IF Len(strs) = 1 THEN strs[1]
    ELSE strs[1] \o JoinLines(Tail(strs))

\* str.lower() on tokens
LowerTok(t) ==
    CASE t = "Intro" -> "intro"
      [] t = "Verse" -> "verse"
      [] t = "Chorus" -> "chorus"
      [] t = "Hook" -> "hook"
      [] t = "Refrain" -> "refrain"
      [] t = "Bridge" -> "bridge"
      [] t = "Outro" -> "outro"
      [] t = "Style" -> "style"
      [] t = "End" -> "end"
      [] OTHER -> t

Lower(s) == [i \in 1..Len(s) |-> LowerTok(s[i])]

\* s.split(":")[0]
BeforeColon(s) ==
    LET cols == {i \in 1..Len(s) : s[i] = ":"}
    IN  IF cols = {} THEN s ELSE SubSeq(s, 1, Min(cols) - 1)

\* re.sub(r"\s*\d+$", "", s): a trailing numeral goes, with the blanks before it
StripTrailingNumber(s) ==
    LET nondig == {i \in 1..Len(s) : s[i] \notin Digits}
        lastnd == IF nondig = {} THEN 0 ELSE Max(nondig)
    IN  IF lastnd = Len(s) THEN s
        ELSE RStripLine(SubSeq(s, 1, lastnd), Whitespace)

----------------------------------------------------------------------------
(* _parse_suno_lyrics: text -> ordered dict {section_key: [block]}, kept as *)
(* a sequence of [key, blocks] entries in insertion order.                  *)

IsTagLine(stripped) ==
    /\ Len(stripped) >= 1
    /\ stripped[1] = "["
    /\ stripped[Len(stripped)] = "]"

\* tag = stripped[1:-1].split(":")[0].strip().lower(), numeral stripped
TagKey(stripped) ==
    LET inner == IF Len(stripped) >= 2 THEN SubSeq(stripped, 2, Len(stripped) - 1)
                 ELSE <<>>
        tag == Lower(StripLine(BeforeColon(inner), Whitespace))
    IN  StripLine(StripTrailingNumber(tag), Whitespace)

DictKeys(d) == {d[i].key : i \in 1..Len(d)}

DictGet(d, k) == d[CHOOSE i \in 1..Len(d) : d[i].key = k].blocks

\* result.setdefault(key, []).append(block)
SetDefaultAppend(d, k, block) ==
    IF k \in DictKeys(d)
    THEN [i \in 1..Len(d) |->
             IF d[i].key = k THEN [d[i] EXCEPT !.blocks = Append(@, block)]
             ELSE d[i]]
    ELSE Append(d, [key |-> k, blocks |-> <<block>>])

\* the block flushed when a tag line or the end of input is reached
FlushBlock(st) ==
    IF st.has_section /\ st.current_section # <<>>
    THEN SetDefaultAppend(st.result, st.current_section,
                          [tag |-> st.current_tag_line,
                           content |-> StripText(JoinLines(st.current_lines))])
    ELSE st.result

\* ParseLine with the tag text recorded without its brackets
ParseLineBareTag(st, line) ==
    LET stripped == StripLine(line, Whitespace)
    IN  IF IsTagLine(stripped)
        THEN [result |-> FlushBlock(st),
              has_section |-> TRUE,
              current_section |-> TagKey(stripped),
              current_tag_line |-> SubSeq(stripped, 2, Len(stripped) - 1),
              current_lines |-> <<>>]
        ELSE IF st.has_section
        THEN [st EXCEPT !.current_lines = Append(@, <<line>>)]
        ELSE st

\* one iteration of the loop over the lines (lines 725-740)
ParseLine(st, line) ==
    LET stripped == StripLine(line, Whitespace)
    IN  IF IsTagLine(stripped)
        THEN [result |-> FlushBlock(st),
              has_section |-> TRUE,
              current_section |-> TagKey(stripped),
              current_tag_line |-> stripped,
              current_lines |-> <<>>]
        ELSE IF st.has_section
        THEN [st EXCEPT !.current_lines = Append(@, <<line>>)]
        ELSE st

RECURSIVE ParseLoop(_, _, _)
ParseLoop(lines, i, st) ==
    IF i > Len(lines) THEN st
    ELSE ParseLoop(lines, i + 1, ParseLine(st, lines[i]))

_parse_suno_lyrics(text) ==
    IF StripText(text) = EmptyStr THEN <<>>
    ELSE FlushBlock(ParseLoop(StripText(text), 1,
                              [result |-> <<>>,
                               has_section |-> FALSE,
                               current_section |-> <<>>,
                               current_tag_line |-> <<>>,
                               current_lines |-> <<>>]))

----------------------------------------------------------------------------
(* _get_nearest_section_type *)

\* mutant: the table without its hook entry
SYNONYMS_NoHook ==
    [k \in {<<"refrain">>, <<"chorus">>} |->
        CASE k = <<"refrain">> -> << <<"chorus">>, <<"hook">> >>
          [] k = <<"chorus">> -> << <<"hook">>, <<"refrain">> >>]

SYNONYMS ==
    [k \in {<<"hook">>, <<"refrain">>, <<"chorus">>} |->
        CASE k = <<"hook">> -> << <<"chorus">>, <<"refrain">> >>
          [] k = <<"refrain">> -> << <<"chorus">>, <<"hook">> >>
          [] k = <<"chorus">> -> << <<"hook">>, <<"refrain">> >>]

\* Python's None, a value that is no section key
None == <<"<None>">>

\* for synonym in SYNONYMS[section_type]: if synonym in available_types: return
FirstAvailable(syns, available_types) ==
    LET hits == {i \in 1..Len(syns) : syns[i] \in available_types}
    IN  IF hits = {} THEN None ELSE syns[Min(hits)]

\* mutant: a general fallback, any available type serves an unmatched Section
NearestAnyType(section_type, available_types) ==
    LET st == Lower(section_type)
    IN  IF st \in available_types THEN st
        ELSE IF available_types # {}
        THEN CHOOSE k \in available_types : TRUE
        ELSE None

_get_nearest_section_type(section_type, available_types) ==
    LET st == Lower(section_type)
    IN  IF st \in available_types THEN st
        ELSE IF st \in DOMAIN SYNONYMS
        THEN FirstAvailable(SYNONYMS[st], available_types)
        ELSE None

----------------------------------------------------------------------------
(* _build_lyrics_output *)

Genre == "Rock"

LYRIC_TEMPLATES ==
    [t \in {"Anti-Listening"} |->
        << <<"[", "Opening Field", "]">>, <<"[", "Primary Material", "]">> >>]

\* lines.append(f"[Style] ({', '.join(style_parts)})")
StyleHeader == << <<"[", "Style", "]", " ", "(", Genre, ")">> >>

\* f"[{section_type}: {instruments}]" or f"[{section_type}]"
SectionTagLine(section) ==
    LET instruments == StripLine(section.instruments, Whitespace)
    IN  IF instruments # <<>>
        THEN << <<"[">> \o section.type \o <<":", " ">> \o instruments \o <<"]">> >>
        ELSE << <<"[">> \o section.type \o <<"]">> >>

CounterGet(section_counters, k) ==
    IF k \in DOMAIN section_counters THEN section_counters[k] ELSE 0

\* mutant: the counter of a key is never advanced
CounterSetStuck(section_counters, k, v) ==
    [x \in DOMAIN section_counters \cup {k} |-> 0]

CounterSet(section_counters, k, v) ==
    [x \in DOMAIN section_counters \cup {k} |->
        IF x = k THEN v ELSE section_counters[x]]

\* the key a Section is matched to (lines 602-610)
MatchedKey(section, parsed_lyrics) ==
    LET section_key == Lower(section.type)
    IN  IF section_key \in DictKeys(parsed_lyrics) THEN section_key
        ELSE IF parsed_lyrics # <<>>
        THEN _get_nearest_section_type(section_key, DictKeys(parsed_lyrics))
        ELSE None

\* MergeSection with an empty block left in the queue instead of consumed
MergeSectionSkipsEmpty(st, section, parsed_lyrics) ==
    LET matched_key == MatchedKey(section, parsed_lyrics)
        tagged == Append(st.lines, SectionTagLine(section))
    IN  IF matched_key # None /\ matched_key \in DictKeys(parsed_lyrics)
        THEN LET counter == CounterGet(st.section_counters, matched_key)
                 blocks == DictGet(parsed_lyrics, matched_key)
             IN  IF counter < Len(blocks) /\ blocks[counter + 1].content # EmptyStr
                 THEN [lines |-> Append(tagged, blocks[counter + 1].content) \o <<EmptyStr>>,
                       section_counters |->
                          CounterSet(st.section_counters, matched_key, counter + 1),
                       consumed_keys |-> st.consumed_keys \cup {matched_key}]
                 ELSE [st EXCEPT !.lines = tagged \o <<EmptyStr>>]
        ELSE [st EXCEPT !.lines = tagged \o <<EmptyStr>>]

\* one iteration of the loop over the Sections (lines 592-622)
MergeSection(st, section, parsed_lyrics) ==
    LET matched_key == MatchedKey(section, parsed_lyrics)
        tagged == Append(st.lines, SectionTagLine(section))
    IN  IF matched_key # None /\ matched_key \in DictKeys(parsed_lyrics)
        THEN LET counter == CounterGet(st.section_counters, matched_key)
                 blocks == DictGet(parsed_lyrics, matched_key)
             IN  IF counter < Len(blocks)
                 THEN [lines |->
                          (IF blocks[counter + 1].content # EmptyStr
                           THEN Append(tagged, blocks[counter + 1].content)
                           ELSE tagged) \o <<EmptyStr>>,
                       section_counters |->
                          CounterSet(st.section_counters, matched_key, counter + 1),
                       consumed_keys |-> st.consumed_keys \cup {matched_key}]
                 ELSE [st EXCEPT !.lines = tagged \o <<EmptyStr>>]
        ELSE [st EXCEPT !.lines = tagged \o <<EmptyStr>>]

\* mutant: the Sections are walked last to first
RECURSIVE MergeLoopReversed(_, _, _, _)
MergeLoopReversed(secs, i, st, parsed_lyrics) ==
    IF i > Len(secs) THEN st
    ELSE MergeLoopReversed(secs, i + 1,
                           MergeSection(st, secs[Len(secs) + 1 - i], parsed_lyrics),
                           parsed_lyrics)

RECURSIVE MergeLoop(_, _, _, _)
MergeLoop(secs, i, st, parsed_lyrics) ==
    IF i > Len(secs) THEN st
    ELSE MergeLoop(secs, i + 1, MergeSection(st, secs[i], parsed_lyrics),
                   parsed_lyrics)

\* lines appended for a list of blocks: tag, content if any, blank
RECURSIVE BlockLines(_)
BlockLines(blocks) ==
    IF blocks = <<>> THEN <<>>
    ELSE (IF blocks[1].content # EmptyStr
          THEN << <<blocks[1].tag>>, blocks[1].content, EmptyStr >>
          ELSE << <<blocks[1].tag>>, EmptyStr >>)
         \o BlockLines(Tail(blocks))

\* LeftoverLines that appends every block of every key, consumed or not
RECURSIVE LeftoverLinesAll(_, _, _)
LeftoverLinesAll(parsed_lyrics, i, st) ==
    IF i > Len(parsed_lyrics) THEN <<>>
    ELSE BlockLines(parsed_lyrics[i].blocks)
             \o LeftoverLinesAll(parsed_lyrics, i + 1, st)

\* the loop over parsed_lyrics.items() (lines 625-640)
RECURSIVE LeftoverLines(_, _, _)
LeftoverLines(parsed_lyrics, i, st) ==
    IF i > Len(parsed_lyrics) THEN <<>>
    ELSE LET key == parsed_lyrics[i].key
             blocks == parsed_lyrics[i].blocks
             start == CounterGet(st.section_counters, key)
         IN  (IF key \in st.consumed_keys
              THEN BlockLines(SubSeq(blocks, start + 1, Len(blocks)))
              ELSE BlockLines(blocks))
             \o LeftoverLines(parsed_lyrics, i + 1, st)

_build_lyrics_output(secs, lyrics, template) ==
    LET header == <<StyleHeader, EmptyStr>>
    IN  IF template # "None" /\ template \in DOMAIN LYRIC_TEMPLATES
        THEN StripText(JoinLines(Append(header, LYRIC_TEMPLATES[template])))
        ELSE LET parsed_lyrics == IF lyrics # EmptyStr
                                  THEN _parse_suno_lyrics(lyrics) ELSE <<>>
                 merged == MergeLoop(secs, 1,
                                     [lines |-> header,
                                      section_counters |-> <<>>,
                                      consumed_keys |-> {}],
                                     parsed_lyrics)
             IN  StripText(JoinLines(merged.lines
                                     \o LeftoverLines(parsed_lyrics, 1, merged)))

----------------------------------------------------------------------------
(* Inputs of _build_lyrics_output.  The explored inputs are grouped in      *)
(* families: the Sections and the pasted lines of one input come from one   *)
(* family's pools.                                                          *)

Section(type, instruments) == [type |-> type, instruments |-> instruments]

TagLine(name) == <<"[">> \o name \o <<"]">>

HelloWorld == <<"Hello world">>
ByeNow == <<"Bye now">>

InputFamilies ==
    { \* plain types, repeated tags, bodies
      [secs |-> { Section(<<"Verse">>, <<"guitar">>),
                  Section(<<"Outro">>, <<>>) },
       lines |-> { TagLine(<<"Verse">>), TagLine(<<"Outro">>),
                   HelloWorld, ByeNow },
       templates |-> {"None"}],
      \* the hook / chorus / refrain cluster
      [secs |-> { Section(<<"Chorus">>, <<>>),
                  Section(<<"Hook">>, <<>>) },
       lines |-> { TagLine(<<"Chorus">>), TagLine(<<"Hook">>),
                   TagLine(<<"Refrain">>), HelloWorld },
       templates |-> {"None"}],
      \* numbered types and types without a block
      [secs |-> { Section(<<"Verse", " ", "2">>, <<>>),
                  Section(<<"Bridge">>, <<>>) },
       lines |-> { TagLine(<<"Verse">>), TagLine(<<"Verse", " ", "2">>),
                   TagLine(<<"Chorus">>), HelloWorld },
       templates |-> {"None"}],
      \* a lyric template is selected
      [secs |-> { Section(<<"Verse">>, <<"guitar">>) },
       lines |-> { TagLine(<<"Verse">>), HelloWorld },
       templates |-> {"Anti-Listening"}],
      \* the metadata tags of a Suno text
      [secs |-> { Section(<<"Verse">>, <<>>) },
       lines |-> { TagLine(<<"Verse">>), TagLine(<<"End">>),
                   TagLine(<<"Style">>), HelloWorld },
       templates |-> {"None"}],
      \* padded and annotated tags, blank and indented lines
      [secs |-> { Section(<<"Verse">>, <<>>) },
       lines |-> { <<" ">> \o TagLine(<<"Verse", " ", "2">>) \o <<" ">>,
                   TagLine(<<"Verse", ":", " ", "guitar">>),
                   <<>>,
                   <<" ", "la", " ">> },
       templates |-> {"None"}] }

\* the example scenario of the specification's testable properties
ScenarioSections ==
    << Section(<<"Intro">>, <<>>),
       Section(<<"Verse">>, <<"guitar">>),
       Section(<<"Outro">>, <<>>) >>

ScenarioLyrics == <<TagLine(<<"Verse">>), HelloWorld, TagLine(<<"Outro">>), ByeNow>>

SeqsUpTo(S, n) == UNION {[1..k -> S] : k \in 0..n}

\* a pasted text is its lines; no line at all is the empty string
LyricTexts(pool) ==
    {IF t = <<>> THEN EmptyStr ELSE t : t \in SeqsUpTo(pool, MaxLines)}

----------------------------------------------------------------------------
(* The Style field of generate_outputs.  A Style string is one line, a      *)
(* sequence of characters.                                                  *)

MAX_STYLE_LENGTH == 1000

\* s[:n]
Prefix(s, n) == SubSeq(s, 1, IF n < Len(s) THEN n ELSE Len(s))

\* s.rfind(", "): the 0-based index of the last occurrence, -1 when none
RFindCommaSpace(s) ==
    LET hits == {i \in 1..(Len(s) - 1) : s[i] = "," /\ s[i + 1] = " "}
    IN  IF hits = {} THEN -1 ELSE Max(hits) - 1

\* ", ".join(parts)
RECURSIVE JoinCommaSpace(_)
JoinCommaSpace(parts) ==
    IF parts = <<>> THEN <<>>
    ELSE IF Len(parts) = 1 THEN parts[1]
    ELSE parts[1] \o <<",", " ">> \o JoinCommaSpace(Tail(parts))

\* mutant: the hard truncation strips the whole string instead of the prefix
TruncateStyleNoCut(style) ==
    IF Len(style) > MAX_STYLE_LENGTH
    THEN LET truncated == Prefix(style, MAX_STYLE_LENGTH)
             last_comma == RFindCommaSpace(truncated)
         IN  IF last_comma > MAX_STYLE_LENGTH \div 2
             THEN Prefix(truncated, last_comma)
             ELSE RStripLine(style, {",", " "})
    ELSE style

\* lines 239-245
TruncateStyle(style) ==
    IF Len(style) > MAX_STYLE_LENGTH
    THEN LET truncated == Prefix(style, MAX_STYLE_LENGTH)
             last_comma == RFindCommaSpace(truncated)
         IN  IF last_comma > MAX_STYLE_LENGTH \div 2
             THEN Prefix(truncated, last_comma)
             ELSE RStripLine(truncated, {",", " "})
    ELSE style

\* a word of n letters
Word(n) == [i \in 1..n |-> "a"]

PartLengths == {2, 499, 500, 501, 999, 1000}

\* fragments: plain words, and one with a separator of its own and a blank tail
PartPool ==
    {Word(n) : n \in PartLengths}
        \cup {Word(3) \o <<",", " ">> \o Word(3) \o <<" ">>}

PartLists == SeqsUpTo(PartPool, MaxParts) \ {<<>>}

\* what the model may answer, before .strip()
ReplyPool ==
    { <<" ">>,
      <<" ">> \o Word(2) \o <<" ">>,
      Word(2) \o <<",", " ">> \o Word(2),
      Word(500) \o <<",", " ">> \o Word(600),
      Word(600) \o <<",", " ">> \o Word(600) \o <<" ">>,
      Word(200) \o <<",", " ">> \o Word(900),
      Word(999) \o <<",", " ">> \o Word(2),
      Word(998) \o <<" ", ",">> \o Word(2),
      Word(1001) }

NoEntry == <<"<None>">>

----------------------------------------------------------------------------
(* run_refinement_agent.  Its texts are token sequences in which a newline  *)
(* and each of the two answer markers is one token.                         *)

max_rounds == 10

StyleMarker == "REFINED STYLE:"
LyricsMarker == "REFINED LYRICS:"

Newline == "\n"

\* the backtick, which the string syntax here cannot hold
Backtick == "<backtick>"

\* the characters of .strip() and of the markdown clean-up (lines 298-299)
BlankChars == {" ", Newline}
MarkdownChars == {Backtick, "\"", "'", " ", Newline}

\* marker in s
Contains(s, marker) == \E i \in 1..Len(s) : s[i] = marker

\* s.split(marker)[k - 1]
SplitPart(s, marker, k) ==
    LET marks == {i \in 1..Len(s) : s[i] = marker}
        lo == IF k = 1 THEN 1 ELSE NthOf(marks, k - 1) + 1
        hi == IF k <= Cardinality(marks) THEN NthOf(marks, k) - 1 ELSE Len(s)
    IN  SubSeq(s, lo, hi)

\* lines 283-295: the two outputs before the markdown clean-up
ExtractRefined(final, style, lyrics) ==
    IF Contains(final, StyleMarker)
    THEN LET style_part == SplitPart(final, StyleMarker, 2)
         IN  IF Contains(style_part, LyricsMarker)
             THEN [style |-> StripLine(SplitPart(style_part, LyricsMarker, 1), BlankChars),
                   lyrics |-> StripLine(SplitPart(style_part, LyricsMarker, 2), BlankChars)]
             ELSE [style |-> StripLine(style_part, BlankChars), lyrics |-> lyrics]
    ELSE [style |-> style, lyrics |-> lyrics]

\* lines 283-299
ParseFinalResponse(final, style, lyrics) ==
    LET r == ExtractRefined(final, style, lyrics)
    IN  [style |-> StripLine(r.style, MarkdownChars),
         lyrics |-> StripLine(r.lyrics, MarkdownChars)]

\* not final_response
Falsy(text) == text = None \/ text = <<>>

\* a requested call; arguments is what tool_call.function.arguments holds:
\* "complete" a JSON object with the tool's required keys, "incomplete" a
\* JSON object lacking one, "invalid_json" text that json.loads rejects,
\* "not_object" JSON that is no object (null, a list, a number)
ToolCall(id, name, arguments) == [id |-> id, name |-> name, arguments |-> arguments]

\* the tool names execute_tool dispatches on
KnownTools ==
    {"analyze_style_output", "analyze_lyrics_output", "analyze_jazz_output",
     "check_workflow_guidelines", "validate_workflow_output"}

\* lines 212-215: text that does not parse is replaced by an empty dict
LoadArguments(call) ==
    IF call.arguments = "invalid_json" THEN "incomplete" ELSE call.arguments

\* refiner_tools.execute_tool after the logging of lines 218-222: what is
\* fed back, or the exception that leaves run_refinement_agent
execute_tool(call) ==
    IF LoadArguments(call) = "not_object" THEN "AttributeError"
    ELSE IF call.name \in KnownTools
         THEN IF LoadArguments(call) = "complete" THEN "<result>" ELSE "KeyError"
         ELSE "<Unknown tool>"

Raises(call) == execute_tool(call) \in {"AttributeError", "KeyError"}

\* every call of the response is executed
Completes(calls) == \A i \in 1..Len(calls) : ~Raises(calls[i])

\* the calls executed before the first one that raises
ExecutedCalls(calls) ==
    IF Completes(calls) THEN calls
    ELSE SubSeq(calls, 1, (CHOOSE i \in 1..Len(calls) :
                              /\ Raises(calls[i])
                              /\ \A j \in 1..(i - 1) : ~Raises(calls[j])) - 1)

\* what a model response may ask for
ToolCallLists ==
    { << ToolCall("call_1", "analyze_style_output", "complete") >>,
      << ToolCall("call_1", "analyze_lyrics_output", "complete"),
         ToolCall("call_2", "validate_workflow_output", "complete"),
         ToolCall("call_3", "translate_lyrics", "invalid_json") >>,
      << ToolCall("call_1", "analyze_style_output", "invalid_json") >>,
      << ToolCall("call_1", "analyze_lyrics_output", "complete"),
         ToolCall("call_2", "validate_workflow_output", "incomplete"),
         ToolCall("call_3", "analyze_style_output", "complete") >>,
      << ToolCall("call_1", "check_workflow_guidelines", "not_object") >> }

AssistantMessage(calls) == [role |-> "assistant", tool_calls |-> calls]

\* ToolMessages with the results fed back last call first
ToolMessagesReversed(calls) ==
    [i \in 1..Len(calls) |->
        [role |-> "tool", tool_call_id |-> calls[Len(calls) + 1 - i].id,
         content |-> execute_tool(calls[Len(calls) + 1 - i])]]

\* lines 264-268, once per executed call
ToolMessages(calls) ==
    [i \in 1..Len(calls) |->
        [role |-> "tool", tool_call_id |-> calls[i].id,
         content |-> execute_tool(calls[i])]]

StyleArgs ==
    { <<"lofi", ",", " ", "warm">>,
      <<"\"", "lofi", "\"">> }

LyricsArgs ==
    { <<"[Verse]", Newline, "la">>,
      <<"[Verse]", Newline, "singin", "'">> }

\* message.content of a response without tool calls
ContentPool ==
    { None,
      <<>>,
      <<"Looks", " ", "good">>,
      <<StyleMarker, " ", "jazz", Newline, LyricsMarker, Newline, "[Verse]", Newline, "la", Newline>>,
      <<StyleMarker, " ", Backtick, "jazz", Backtick>>,
      <<LyricsMarker, " ", "la">>,
      <<"notes", StyleMarker, "a", StyleMarker, "b", LyricsMarker, "c">>,
      <<StyleMarker, " ">> \o Word(MAX_STYLE_LENGTH + 1) }

----------------------------------------------------------------------------
(* The calls *)

NoOutput == <<>>

NoLyricInputs ==
    /\ sections = <<>>
    /\ suno_lyrics = EmptyStr
    /\ lyric_template = "None"
    /\ lyrics_output = NoOutput

NoStyleInputs ==
    /\ use_llm = FALSE
    /\ api_key = ""
    /\ style_parts = <<Word(2)>>
    /\ llm_reply = <<>>
    /\ cache_entry = NoEntry
    /\ style_output = NoOutput
    /\ cached = FALSE

\* the defaults of init_session_state (app.py 88-90)
NoIterInputs ==
    /\ iter_versions = <<>>
    /\ iter_suggestions = <<>>
    /\ iter_active = FALSE

NoPromptInputs ==
    /\ selections = <<>>
    /\ last_selections = <<>>
    /\ shown_prompt = <<>>
    /\ refined_prompt = None
    /\ refine_score = None
    /\ refine_reasoning = None

\* nothing of the concurrent calls, the iterative session or the prompt page
NoSessionInputs ==
    /\ local = <<>>
    /\ NoIterInputs
    /\ NoPromptInputs

NoAppInputs ==
    /\ notice = "none"
    /\ ops = 0
    /\ history = <<>>
    /\ cache = <<>>
    /\ song_sections = <<>>
    /\ issued = {}
    /\ NoSessionInputs

NoRefinerInputs ==
    /\ style_text = <<>>
    /\ lyrics_text = <<>>
    /\ round_num = 0
    /\ messages = <<>>
    /\ final_response = None
    /\ requests = 0
    /\ refined_style = NoOutput
    /\ refined_lyrics = NoOutput

\* a call of _build_lyrics_output
Init ==
    /\ pc = "call"
    /\ \/ \E f \in InputFamilies :
             /\ sections \in SeqsUpTo(f.secs, MaxSections)
             /\ suno_lyrics \in LyricTexts(f.lines)
             /\ lyric_template \in f.templates
       \/ /\ sections = ScenarioSections
          /\ suno_lyrics = ScenarioLyrics
          /\ lyric_template = "None"
    /\ lyrics_output = NoOutput
    /\ NoStyleInputs
    /\ NoRefinerInputs
    /\ NoAppInputs

BuildLyricsOutput ==
    /\ pc = "call"
    /\ lyrics_output' = _build_lyrics_output(sections, suno_lyrics, lyric_template)
    /\ pc' = "done"
    /\ UNCHANGED <<sections, suno_lyrics, lyric_template>>
    /\ UNCHANGED <<styleVars, refinerVars, appVars, sessionVars>>

Next == BuildLyricsOutput

vars == <<pc, lyricsVars, styleVars, refinerVars, appVars, sessionVars>>

Spec == Init /\ [][Next]_vars

\* a call of generate_outputs
InitStyle ==
    /\ pc = "call"
    /\ NoLyricInputs
    /\ \/ /\ use_llm \in BOOLEAN
          /\ api_key \in {"", "sk-test"}
          /\ ~(use_llm /\ api_key # "")
          /\ style_parts \in PartLists
          /\ llm_reply = <<>>
          /\ cache_entry = NoEntry
       \/ /\ use_llm = TRUE
          /\ api_key = "sk-test"
          /\ style_parts = <<Word(2)>>
          /\ llm_reply \in ReplyPool
          /\ cache_entry \in {NoEntry, <<>>} \cup {StripLine(r, Whitespace) : r \in ReplyPool}
    /\ style_output = NoOutput
    /\ cached = FALSE
    /\ NoRefinerInputs
    /\ NoAppInputs

ReturnOutputs(style) ==
    /\ style_output' = TruncateStyle(style)
    /\ lyrics_output' = _build_lyrics_output(sections, suno_lyrics, lyric_template)
    /\ pc' = "done"
    /\ UNCHANGED <<sections, suno_lyrics, lyric_template,
                   use_llm, api_key, style_parts, llm_reply>>
    /\ UNCHANGED <<refinerVars, appVars, sessionVars>>

\* lines 147-161 and 183-224: the static assembly
GenerateStatic ==
    /\ pc = "call"
    /\ ~(use_llm /\ api_key # "")
    /\ cached' = FALSE
    /\ UNCHANGED cache_entry
    /\ ReturnOutputs(JoinCommaSpace(style_parts))

\* lines 330-332: the cache holds a prompt for these selections
GenerateLLMCached ==
    /\ pc = "call"
    /\ use_llm /\ api_key # ""
    /\ cache_entry # NoEntry /\ cache_entry # <<>>
    /\ cached' = TRUE
    /\ UNCHANGED cache_entry
    /\ ReturnOutputs(cache_entry)

\* lines 334-350: one request, the stripped answer is cached and returned
GenerateLLMFresh ==
    /\ pc = "call"
    /\ use_llm /\ api_key # ""
    /\ ~(cache_entry # NoEntry /\ cache_entry # <<>>)
    /\ cached' = FALSE
    /\ cache_entry' = StripLine(llm_reply, Whitespace)
    /\ ReturnOutputs(StripLine(llm_reply, Whitespace))

NextStyle == GenerateStatic \/ GenerateLLMCached \/ GenerateLLMFresh

SpecStyle == InitStyle /\ [][NextStyle]_vars

\* a call of run_refinement_agent with an API key
InitRefiner ==
    /\ pc = "loop"
    /\ NoLyricInputs
    /\ NoStyleInputs
    /\ style_text \in StyleArgs
    /\ lyrics_text \in LyricsArgs
    /\ round_num = 0
    /\ messages = << [role |-> "system"], [role |-> "user"] >>
    /\ final_response = None
    /\ requests = 0
    /\ refined_style = NoOutput
    /\ refined_lyrics = NoOutput
    /\ NoAppInputs

\* lines 283-322: the outputs are parsed from the final answer and returned;
\* a None answer makes the membership test of line 287 raise
ReturnRefined(final) ==
    IF final = None
    THEN /\ pc' = "raised"
         /\ UNCHANGED <<refined_style, refined_lyrics>>
    ELSE /\ pc' = "done"
         /\ refined_style' = ParseFinalResponse(final, style_text, lyrics_text).style
         /\ refined_lyrics' = ParseFinalResponse(final, style_text, lyrics_text).lyrics

\* ToolRound with a loop that forgets to count its rounds
ToolRoundUncounted ==
    /\ pc = "loop"
    /\ \E calls \in ToolCallLists :
          /\ Completes(calls)
          /\ messages' = Append(messages, AssistantMessage(calls)) \o ToolMessages(calls)
    /\ round_num' = round_num
    /\ requests' = requests + 1
    /\ UNCHANGED <<pc, style_text, lyrics_text, final_response,
                   refined_style, refined_lyrics>>
    /\ UNCHANGED <<lyricsVars, styleVars, appVars, sessionVars>>

\* a round whose response requests tool calls
ToolRound ==
    /\ pc = "loop"
    /\ round_num < max_rounds - 1
    /\ \E calls \in ToolCallLists :
          /\ Completes(calls)
          /\ messages' = Append(messages, AssistantMessage(calls)) \o ToolMessages(calls)
    /\ round_num' = round_num + 1
    /\ requests' = requests + 1
    /\ UNCHANGED <<pc, style_text, lyrics_text, final_response,
                   refined_style, refined_lyrics>>
    /\ UNCHANGED <<lyricsVars, styleVars, appVars, sessionVars>>

\* the last round requests tool calls too: the final answer is forced
LastToolRound ==
    /\ pc = "loop"
    /\ round_num = max_rounds - 1
    /\ \E calls \in ToolCallLists :
          /\ Completes(calls)
          /\ messages' = Append(messages, AssistantMessage(calls)) \o ToolMessages(calls)
    /\ round_num' = round_num + 1
    /\ \E forced \in ContentPool :
          /\ requests' = requests + 2
          /\ final_response' = forced
          /\ ReturnRefined(forced)
    /\ UNCHANGED <<style_text, lyrics_text>>
    /\ UNCHANGED <<lyricsVars, styleVars, appVars, sessionVars>>

\* a round whose response has no tool calls and a non-empty content
AnswerRound ==
    /\ pc = "loop"
    /\ round_num < max_rounds
    /\ \E content \in ContentPool :
          /\ ~Falsy(content)
          /\ requests' = requests + 1
          /\ final_response' = content
          /\ ReturnRefined(content)
    /\ UNCHANGED <<style_text, lyrics_text, round_num, messages>>
    /\ UNCHANGED <<lyricsVars, styleVars, appVars, sessionVars>>

\* a round whose response has neither tool calls nor content: the loop is
\* left with final_response empty and the final answer is forced
EmptyAnswerRound ==
    /\ pc = "loop"
    /\ round_num < max_rounds
    /\ \E content \in ContentPool, forced \in ContentPool :
          /\ Falsy(content)
          /\ requests' = requests + 2
          /\ final_response' = forced
          /\ ReturnRefined(forced)
    /\ UNCHANGED <<style_text, lyrics_text, round_num, messages>>
    /\ UNCHANGED <<lyricsVars, styleVars, appVars, sessionVars>>

\* a round in which a requested call raises: nothing in run_refinement_agent
\* catches it, so the call ends with the messages appended so far
ToolRoundRaises ==
    /\ pc = "loop"
    /\ round_num < max_rounds
    /\ \E calls \in ToolCallLists :
          /\ ~Completes(calls)
          /\ messages' = Append(messages, AssistantMessage(calls))
                              \o ToolMessages(ExecutedCalls(calls))
    /\ pc' = "raised"
    /\ requests' = requests + 1
    /\ UNCHANGED <<style_text, lyrics_text, round_num, final_response,
                   refined_style, refined_lyrics>>
    /\ UNCHANGED <<lyricsVars, styleVars, appVars, sessionVars>>

NextRefiner ==
    ToolRound \/ LastToolRound \/ ToolRoundRaises \/ AnswerRound \/ EmptyAnswerRound

SpecRefiner == InitRefiner /\ [][NextRefiner]_vars

\* every request is a blocking call that returns, so a call that is still in
\* its loop takes its next round
SpecRefinerFair == SpecRefiner /\ WF_vars(NextRefiner)

----------------------------------------------------------------------------
(* The Generate button of the page (app.py generate_clicked), pressed       *)
(* repeatedly with the same selections; pc names the way the last press     *)
(* ended: "no_key", "static", "hit", "miss" or "raised".                    *)

MaxClicks == 3

\* the request raised instead of returning a response
RequestError == <<"<APIError>">>

NoticeNone == "none"
NoticeKeyRequired == "API key required for LLM generation. Add it in the sidebar."
NoticeCached == "Using cached LLM result"
NoticeException == "<traceback>"

StaticStyle == TruncateStyle(JoinCommaSpace(style_parts))

InitGenerate ==
    /\ pc = "idle"
    /\ sections = ScenarioSections
    /\ suno_lyrics = ScenarioLyrics
    /\ lyric_template = "None"
    /\ lyrics_output = NoOutput
    /\ use_llm \in BOOLEAN
    /\ api_key \in {"", "sk-test"}
    /\ style_parts \in {<<Word(2)>>, <<Word(2), Word(499)>>, <<Word(500), Word(1000)>>}
    /\ llm_reply = <<>>
    /\ cache_entry \in {NoEntry, <<"a", ",", " ", "a">>, Word(1001)}
    /\ style_output = NoOutput
    /\ cached = FALSE
    /\ NoRefinerInputs
    /\ notice = NoticeNone
    /\ ops = 0
    /\ history = <<>>
    /\ cache = <<>>
    /\ song_sections = <<>>
    /\ issued = {}
    /\ NoSessionInputs

GenerateFrame ==
    /\ ops' = ops + 1
    /\ UNCHANGED <<sections, suno_lyrics, lyric_template, use_llm, api_key, style_parts>>
    /\ UNCHANGED <<style_text, lyrics_text, round_num, messages, final_response,
                   refined_style, refined_lyrics>>
    /\ UNCHANGED <<history, cache, song_sections, issued>>
    /\ UNCHANGED sessionVars

\* app.py 668-674: the outputs are stored and a cache hit is announced
ShowOutputs(style, hit) ==
    /\ style_output' = TruncateStyle(style)
    /\ lyrics_output' = _build_lyrics_output(sections, suno_lyrics, lyric_template)
    /\ cached' = hit
    /\ notice' = IF hit THEN NoticeCached ELSE NoticeNone

\* app.py 639-640: LLM mode without a key shows an error and generates nothing
ClickWithoutKey ==
    /\ ops < MaxClicks
    /\ use_llm /\ api_key = ""
    /\ notice' = NoticeKeyRequired
    /\ pc' = "no_key"
    /\ UNCHANGED <<style_output, lyrics_output, cached, llm_reply, cache_entry, requests>>
    /\ GenerateFrame

\* static mode: generate_outputs assembles the Style field locally
ClickStatic ==
    /\ ops < MaxClicks
    /\ ~use_llm
    /\ ShowOutputs(JoinCommaSpace(style_parts), FALSE)
    /\ pc' = "static"
    /\ UNCHANGED <<llm_reply, cache_entry, requests>>
    /\ GenerateFrame

\* LLM mode, get_cached returned a truthy text
ClickLLMCached ==
    /\ ops < MaxClicks
    /\ use_llm /\ api_key # ""
    /\ cache_entry # NoEntry /\ cache_entry # <<>>
    /\ ShowOutputs(cache_entry, TRUE)
    /\ pc' = "hit"
    /\ UNCHANGED <<llm_reply, cache_entry, requests>>
    /\ GenerateFrame

\* LLM mode, nothing truthy cached: one request whose answer is stripped,
\* cached and shown
ClickLLMFresh ==
    /\ ops < MaxClicks
    /\ use_llm /\ api_key # ""
    /\ ~(cache_entry # NoEntry /\ cache_entry # <<>>)
    /\ \E reply \in ReplyPool :
          /\ llm_reply' = reply
          /\ cache_entry' = StripLine(reply, Whitespace)
          /\ ShowOutputs(StripLine(reply, Whitespace), FALSE)
    /\ requests' = requests + 1
    /\ pc' = "miss"
    /\ GenerateFrame

\* LLM mode, the request raises (or answers with content None, on which
\* .strip() raises): nothing catches it, so the handler ends in the exception
ClickLLMRaises ==
    /\ ops < MaxClicks
    /\ use_llm /\ api_key # ""
    /\ ~(cache_entry # NoEntry /\ cache_entry # <<>>)
    /\ llm_reply' \in {RequestError, None}
    /\ requests' = requests + 1
    /\ notice' = NoticeException
    /\ pc' = "raised"
    /\ UNCHANGED <<style_output, lyrics_output, cached, cache_entry>>
    /\ GenerateFrame

NextGenerate ==
    ClickWithoutKey \/ ClickStatic \/ ClickLLMCached \/ ClickLLMFresh \/ ClickLLMRaises

SpecGenerate == InitGenerate /\ [][NextGenerate]_vars

----------------------------------------------------------------------------
(* storage.py: the song history.  In the specifications below pc is the     *)
(* last call with its arguments.                                            *)

MaxOps == 3

NoCall == [op |-> "none"]

Titles == {"Song A", "Song B"}

\* the record save_song builds; the clock reading is modelled by the number
\* of handlers run so far
Song(title, style, lyrics, clock) ==
    [title |-> title, timestamp |-> clock, settings |-> "settings",
     style_output |-> style, lyrics_output |-> lyrics]

\* list.pop(index) for 0 <= index < len(list)
Pop(list, index) ==
    [j \in 1..(Len(list) - 1) |-> IF j <= index THEN list[j] ELSE list[j + 1]]

\* list.pop(index) as Python defines it for a negative index too
PopPython(list, index) ==
    Pop(list, IF index < 0 THEN Len(list) + index ELSE index)

OtherVarsOfHistory ==
    /\ UNCHANGED <<lyricsVars, styleVars, refinerVars>>
    /\ UNCHANGED <<notice, cache, song_sections, issued>>
    /\ UNCHANGED sessionVars

InitHistory ==
    /\ pc = NoCall
    /\ NoLyricInputs
    /\ NoStyleInputs
    /\ NoRefinerInputs
    /\ NoAppInputs

save_song ==
    /\ ops < MaxOps
    /\ \E title \in Titles, style \in {"style 1", "style 2"} :
          history' = Append(history, Song(title, style, "", ops))
    /\ pc' = [op |-> "save_song"]
    /\ ops' = ops + 1
    /\ OtherVarsOfHistory

\* delete_song without the lower bound of its index test
delete_song_NoLowerBound ==
    /\ ops < MaxOps
    /\ \E index \in -2..(Len(history) + 1) :
          /\ history' = IF index < Len(history) /\ -index <= Len(history)
                         THEN PopPython(history, index)
                         ELSE history
          /\ pc' = [op |-> "delete_song", index |-> index]
    /\ ops' = ops + 1
    /\ OtherVarsOfHistory

delete_song ==
    /\ ops < MaxOps
    /\ \E index \in -2..(Len(history) + 1) :
          /\ history' = IF 0 <= index /\ index < Len(history)
                         THEN Pop(history, index)
                         ELSE history
          /\ pc' = [op |-> "delete_song", index |-> index]
    /\ ops' = ops + 1
    /\ OtherVarsOfHistory

NextHistory == save_song \/ delete_song

SpecHistory == InitHistory /\ [][NextHistory]_vars

----------------------------------------------------------------------------
(* cache.py: the prompt cache file, a dict in insertion order *)

MAX_CACHE_SIZE == 500

CacheKeys(c) == {c[i].key : i \in 1..Len(c)}

\* cache[key] = prompt: an existing key keeps its place, a new one goes last
CacheSet(c, key, prompt) ==
    IF key \in CacheKeys(c)
    THEN [i \in 1..Len(c) |-> IF c[i].key = key THEN [c[i] EXCEPT !.prompt = prompt]
                              ELSE c[i]]
    ELSE Append(c, [key |-> key, prompt |-> prompt])

\* _save_cache that trims to the first MAX_CACHE_SIZE entries
_save_cache_KeepsFirst(c) ==
    IF Len(c) > MAX_CACHE_SIZE
    THEN SubSeq(c, 1, MAX_CACHE_SIZE)
    ELSE c

\* what _save_cache writes: items[-MAX_CACHE_SIZE:] when the dict is too large
_save_cache(c) ==
    IF Len(c) > MAX_CACHE_SIZE
    THEN SubSeq(c, Len(c) - MAX_CACHE_SIZE + 1, Len(c))
    ELSE c

\* a cache file of n entries written by n earlier calls
FilledCache(n) == [i \in 1..n |-> [key |-> i, prompt |-> "p"]]

KeyPool == {1, 2, MAX_CACHE_SIZE, MAX_CACHE_SIZE + 1, MAX_CACHE_SIZE + 2}

OtherVarsOfCache ==
    /\ UNCHANGED <<lyricsVars, styleVars, refinerVars>>
    /\ UNCHANGED <<notice, history, song_sections, issued>>
    /\ UNCHANGED sessionVars

InitCache ==
    /\ pc = NoCall
    /\ NoLyricInputs
    /\ NoStyleInputs
    /\ NoRefinerInputs
    /\ notice = NoticeNone
    /\ ops = 0
    /\ history = <<>>
    /\ cache \in {FilledCache(0), FilledCache(MAX_CACHE_SIZE - 1),
                   FilledCache(MAX_CACHE_SIZE)}
    /\ song_sections = <<>>
    /\ issued = {}
    /\ NoSessionInputs

set_cached ==
    /\ ops < MaxOps
    /\ \E key \in KeyPool, prompt \in {"p", "q"} :
          /\ cache' = _save_cache(CacheSet(cache, key, prompt))
          /\ pc' = [op |-> "set_cached", key |-> key, prompt |-> prompt]
    /\ ops' = ops + 1
    /\ OtherVarsOfCache

\* clear_cache removes the file
clear_cache ==
    /\ ops < MaxOps
    /\ cache' = <<>>
    /\ pc' = [op |-> "clear_cache"]
    /\ ops' = ops + 1
    /\ OtherVarsOfCache

NextCache == set_cached \/ clear_cache

SpecCache == InitCache /\ [][NextCache]_vars

----------------------------------------------------------------------------
(* app.py, Song Structure: the Section list of the session and the handlers *)
(* that change it.  uuid4 is modelled as handing out an id that was never   *)
(* handed out before.                                                       *)

MaxEdits == 2

uuid4(used) == Cardinality(used) + 1

UISection(id, type, instruments) == [id |-> id, type |-> type, instruments |-> instruments]

\* the default Sections of a new session
DefaultSections ==
    << UISection(1, <<"Intro">>, <<>>),
       UISection(2, <<"Verse">>, <<>>),
       UISection(3, <<"Chorus">>, <<>>),
       UISection(4, <<"Bridge">>, <<>>),
       UISection(5, <<"Outro">>, <<>>) >>

\* str.title() on tokens
TitleTok(t) ==
    CASE t = "intro" -> "Intro"
      [] t = "verse" -> "Verse"
      [] t = "chorus" -> "Chorus"
      [] t = "hook" -> "Hook"
      [] t = "refrain" -> "Refrain"
      [] t = "bridge" -> "Bridge"
      [] t = "outro" -> "Outro"
      [] t = "style" -> "Style"
      [] t = "end" -> "End"
      [] t = "guitar" -> "Guitar"
      [] t = "la" -> "La"
      [] t = "Hello world" -> "Hello World"
      [] t = "Bye now" -> "Bye Now"
      [] OTHER -> t

Title(s) == [i \in 1..Len(s) |-> TitleTok(s[i])]

\* a text as one run of tokens, its lines separated by newline tokens
RECURSIVE Flatten(_)
Flatten(text) ==
    IF Len(text) = 0 THEN <<>>
    ELSE IF Len(text) = 1 THEN text[1]
    ELSE text[1] \o <<"\n">> \o Flatten(Tail(text))

FirstIn(f, from, chars) ==
    LET hits == {i \in from..Len(f) : f[i] \in chars}
    IN  IF hits = {} THEN 0 ELSE Min(hits)

\* tag_pattern.finditer: the (type, instruments) groups of the bracket tags,
\* scanning from index a
RECURSIVE FindTags(_, _)
FindTags(f, a) ==
    IF a > Len(f) THEN <<>>
    ELSE IF f[a] # "[" THEN FindTags(f, a + 1)
    ELSE LET e1 == FirstIn(f, a + 1, {"]", ":"})
         IN  IF e1 = 0 \/ e1 = a + 1 THEN FindTags(f, a + 1)
             ELSE IF f[e1] = "]"
             THEN << [type |-> SubSeq(f, a + 1, e1 - 1), instruments |-> <<>>] >>
                  \o FindTags(f, e1 + 1)
             ELSE LET e2 == FirstIn(f, e1 + 1, {"]"})
                  IN  IF e2 = 0 \/ e2 = e1 + 1 THEN FindTags(f, a + 1)
                      ELSE << [type |-> SubSeq(f, a + 1, e1 - 1),
                               instruments |-> SubSeq(f, e1 + 1, e2 - 1)] >>
                           \o FindTags(f, e2 + 1)

BlankToks == {" ", "\n"}

\* normalized_type of a match
NormalizedTagType(type) ==
    Title(StripLine(StripTrailingNumber(StripLine(type, BlankToks)), BlankToks))

\* the Sections built from the matches, each with a new id
RECURSIVE SectionsOfTags(_, _)
SectionsOfTags(tags, used) ==
    IF tags = <<>> THEN <<>>
    ELSE LET type == NormalizedTagType(tags[1].type)
         IN  IF Lower(type) \in {<<"style">>, <<"end">>}
             THEN SectionsOfTags(Tail(tags), used)
             ELSE << UISection(uuid4(used), type,
                               StripLine(tags[1].instruments, BlankToks)) >>
                  \o SectionsOfTags(Tail(tags), used \cup {uuid4(used)})

parse_lyrics_to_sections(text, used) ==
    IF StripText(text) = EmptyStr THEN <<>>
    ELSE SectionsOfTags(FindTags(Flatten(text), 1), used)

IdsOf(secs) == {secs[i].id : i \in 1..Len(secs)}

Swap(list, i, j) ==
    [k \in 1..Len(list) |-> IF k = i THEN list[j] ELSE IF k = j THEN list[i] ELSE list[k]]

TypeChoices == { <<"Verse">>, <<"Chorus">> }
InstrumentChoices == { <<>>, <<"guitar">> }

ImportTexts ==
    { <<TagLine(<<"Verse">>), HelloWorld, TagLine(<<"End">>)>>,
      <<TagLine(<<"Verse", ":", " ", "guitar">>), <<"la", " ">> \o TagLine(<<"Verse", " ", "2">>)>>,
      <<TagLine(<<"hook">>), HelloWorld, TagLine(<<"Verse">>)>>,
      <<HelloWorld>> }

InitSections ==
    /\ pc = NoCall
    /\ sections = <<>>
    /\ suno_lyrics \in ImportTexts
    /\ lyric_template = "None"
    /\ lyrics_output = NoOutput
    /\ NoStyleInputs
    /\ NoRefinerInputs
    /\ notice = NoticeNone
    /\ ops = 0
    /\ history = <<>>
    /\ cache = <<>>
    /\ song_sections = DefaultSections
    /\ issued = IdsOf(DefaultSections)
    /\ NoSessionInputs

\* every handler ends in st.rerun(): the page is drawn again
SectionsFrame(op) ==
    /\ ops < MaxEdits
    /\ ops' = ops + 1
    /\ pc' = op
    /\ UNCHANGED <<lyricsVars, styleVars, refinerVars>>
    /\ UNCHANGED <<history, cache>>
    /\ UNCHANGED sessionVars
\* the Add button (app.py 465-471)
AddSection ==
    /\ \E type \in TypeChoices, instruments \in InstrumentChoices :
          song_sections' = Append(song_sections,
                                  UISection(uuid4(issued), type, instruments))
    /\ issued' = issued \cup {uuid4(issued)}
    /\ UNCHANGED notice
    /\ SectionsFrame([op |-> "add"])

\* data.SECTION_TYPES, the options of the type box
SECTION_TYPES ==
    << <<"Intro">>, <<"Verse">>, <<"Pre-Chorus">>, <<"Chorus">>, <<"Post-Chorus">>,
       <<"Bridge">>, <<"Breakdown">>, <<"Buildup">>, <<"Drop">>, <<"Solo">>,
       <<"Outro">>, <<"Coda">> >>

\* the type box of a row drawn for the first time (app.py 511-519): a box
\* without widget state returns the option at type_idx, and a value that
\* differs from the stored type is written back
TypeBox(type) ==
    IF \E k \in 1..Len(SECTION_TYPES) : SECTION_TYPES[k] = type
    THEN type
    ELSE SECTION_TYPES[1]

\* the editor loop of the run that st.rerun() starts (app.py 507-519), over
\* rows whose ids are new
SectionEditor(secs) ==
    [i \in 1..Len(secs) |-> [secs[i] EXCEPT !.type = TypeBox(secs[i].type)]]

\* Import Sections from Lyrics (app.py 574-582): the list is replaced when
\* the text has section tags, else a warning is shown
ImportSections ==
    /\ StripText(suno_lyrics) # EmptyStr
    /\ LET parsed == parse_lyrics_to_sections(suno_lyrics, issued)
       IN  IF parsed # <<>>
           THEN /\ song_sections' = SectionEditor(parsed)
                /\ issued' = issued \cup IdsOf(parsed)
                /\ notice' = "Imported sections from lyrics"
           ELSE /\ UNCHANGED <<song_sections, issued>>
                /\ notice' = "No section tags found in lyrics"
    /\ SectionsFrame([op |-> "import"])

\* AI Suggest Instruments with ids handed out anew, as the Sections of a
\* developer scenario are built
SuggestInstrumentsNewIds ==
    /\ \E skip \in TypeChoices \cup {None} :
          song_sections' =
             [i \in 1..Len(song_sections) |->
                 [id |-> Cardinality(issued) + i,
                  type |-> song_sections[i].type,
                  instruments |->
                     IF song_sections[i].instruments = <<>> /\ song_sections[i].type # skip
                     THEN <<"pads">>
                     ELSE song_sections[i].instruments]]
    /\ issued' = issued \cup {Cardinality(issued) + i : i \in 1..Len(song_sections)}
    /\ UNCHANGED notice
    /\ SectionsFrame([op |-> "suggest"])

\* AI Suggest Instruments (app.py 476-489, suggest_section_instruments):
\* every Section is copied and an empty instruments field is filled, unless
\* the suggestions have nothing for its type
SuggestInstruments ==
    /\ \E skip \in TypeChoices \cup {None} :
          song_sections' =
             [i \in 1..Len(song_sections) |->
                 IF song_sections[i].instruments = <<>> /\ song_sections[i].type # skip
                 THEN [song_sections[i] EXCEPT !.instruments = <<"pads">>]
                 ELSE song_sections[i]]
    /\ UNCHANGED <<issued, notice>>
    /\ SectionsFrame([op |-> "suggest"])

\* Clear All Instruments (app.py 492-495)
ClearAllInstruments ==
    /\ song_sections' = [i \in 1..Len(song_sections) |->
                            [song_sections[i] EXCEPT !.instruments = <<>>]]
    /\ UNCHANGED <<issued, notice>>
    /\ SectionsFrame([op |-> "clear"])

\* the type box of row i (app.py 511-519); rows are numbered from 0
EditType ==
    /\ \E i \in 0..(Len(song_sections) - 1), new_type \in TypeChoices :
          /\ new_type # song_sections[i + 1].type
          /\ song_sections' = [song_sections EXCEPT ![i + 1].type = new_type]
          /\ SectionsFrame([op |-> "edit_type", i |-> i])
    /\ UNCHANGED <<issued, notice>>

\* the instruments box of row i (app.py 521-529)
EditInstruments ==
    /\ \E i \in 0..(Len(song_sections) - 1), new_instr \in InstrumentChoices :
          /\ new_instr # song_sections[i + 1].instruments
          /\ song_sections' = [song_sections EXCEPT ![i + 1].instruments = new_instr]
          /\ SectionsFrame([op |-> "edit_instruments", i |-> i])
    /\ UNCHANGED <<issued, notice>>

\* the up arrow of row i (app.py 531-535)
MoveUp ==
    /\ \E i \in 0..(Len(song_sections) - 1) :
          /\ i > 0
          /\ song_sections' = Swap(song_sections, i + 1, i)
          /\ SectionsFrame([op |-> "up", i |-> i])
    /\ UNCHANGED <<issued, notice>>

\* the down arrow of row i (app.py 537-541)
MoveDown ==
    /\ \E i \in 0..(Len(song_sections) - 1) :
          /\ i < Len(song_sections) - 1
          /\ song_sections' = Swap(song_sections, i + 1, i + 2)
          /\ SectionsFrame([op |-> "down", i |-> i])
    /\ UNCHANGED <<issued, notice>>

\* the remove button of row i (app.py 543-551)
RemoveSection ==
    /\ \E i \in 0..(Len(song_sections) - 1) :
          /\ song_sections' = Pop(song_sections, i)
          /\ SectionsFrame([op |-> "remove", i |-> i])
    /\ UNCHANGED <<issued, notice>>

NextSections ==
    \/ AddSection
    \/ ImportSections
    \/ SuggestInstruments
    \/ ClearAllInstruments
    \/ EditType
    \/ EditInstruments
    \/ MoveUp
    \/ MoveDown
    \/ RemoveSection

SpecSections == InitSections /\ [][NextSections]_vars

----------------------------------------------------------------------------
(* Reading the Lyrics output back: its tag lines and the body under each    *)

Done == pc = "done"

\* the branch of _build_lyrics_output that merges Sections and pasted lyrics
NoTemplate == ~(lyric_template # "None" /\ lyric_template \in DOMAIN LYRIC_TEMPLATES)

Merged == Done /\ NoTemplate

TagIdx(out) == {i \in 1..Len(out) : IsTagLine(StripLine(out[i], Whitespace))}

\* the tag lines of a text, in order
TagsOf(out) ==
    LET idx == TagIdx(out)
    IN  [n \in 1..Cardinality(idx) |-> out[NthOf(idx, n)]]

\* the text between each tag line and the next one (or the end), in order
BodiesOf(out) ==
    LET idx == TagIdx(out)
    IN  [n \in 1..Cardinality(idx) |->
            LET a == NthOf(idx, n)
                later == {i \in idx : i > a}
                b == IF later = {} THEN Len(out) ELSE Min(later) - 1
            IN  IF a + 1 > b THEN EmptyStr ELSE StripText(SubSeq(out, a + 1, b))]

Blocks(parsed, k) == IF k \in DictKeys(parsed) THEN DictGet(parsed, k) ELSE <<>>

\* the key the code matches each Section to
MatchedKeys(parsed) == [i \in 1..Len(sections) |-> MatchedKey(sections[i], parsed)]

\* section_counters as it is when the loop reaches Section i
CountersBefore(parsed) ==
    [i \in 1..Len(sections) |->
        MergeLoop(SubSeq(sections, 1, i - 1), 1,
                  [lines |-> <<>>, section_counters |-> <<>>, consumed_keys |-> {}],
                  parsed).section_counters]

Cluster == DOMAIN SYNONYMS

VerseTag == TagLine(<<"Verse">>)
ChorusTag == TagLine(<<"Chorus">>)
HookTag == TagLine(<<"Hook">>)
OutroTag == TagLine(<<"Outro">>)

TypesOf(secs) == [i \in 1..Len(secs) |-> secs[i].type]

----------------------------------------------------------------------------
(* C1: with no lyric template, the blocks of one section_key are consumed   *)
(* first in, first out: the n-th Section matched to a key gets the content  *)
(* of the n-th block of that key; two Verse Sections and the blocks         *)
(* [Verse] A, [Verse] B get A and B in that order.                          *)
TwoVerseExample ==
    /\ TypesOf(sections) = << <<"Verse">>, <<"Verse">> >>
    /\ suno_lyrics = <<VerseTag, HelloWorld, VerseTag, ByeNow>>

FifoPerKey ==
    Merged =>
        LET parsed == _parse_suno_lyrics(suno_lyrics)
            matched == MatchedKeys(parsed)
            body == BodiesOf(lyrics_output)
        IN  /\ Len(body) >= Len(sections)
            /\ \A k \in DictKeys(parsed) :
                  LET on == {i \in 1..Len(sections) : matched[i] = k}
                      blocks == Blocks(parsed, k)
                  IN  \A n \in 1..Len(blocks) :
                         n <= Cardinality(on) => body[NthOf(on, n)] = blocks[n].content
            /\ TwoVerseExample => body[1] = <<HelloWorld>> /\ body[2] = <<ByeNow>>

FifoPerKeyWitness ==
    /\ Merged
    /\ TwoVerseExample
    /\ BodiesOf(lyrics_output)[1] = <<HelloWorld>>
    /\ BodiesOf(lyrics_output)[2] = <<ByeNow>>

----------------------------------------------------------------------------
(* C2: with no lyric template, the output is the [Style] header, then one   *)
(* tag line per Section in Section order, then the leftover blocks; the     *)
(* example scenario gives [Intro], [Verse: guitar] Hello world, [Outro]     *)
(* Bye now.                                                                 *)
ExampleScenario ==
    /\ sections = ScenarioSections
    /\ suno_lyrics = ScenarioLyrics

ExampleOutput ==
    << StyleHeader[1], <<>>,
       <<"[", "Intro", "]">>, <<>>,
       <<"[", "Verse", ":", " ", "guitar", "]">>, HelloWorld, <<>>,
       <<"[", "Outro", "]">>, ByeNow >>

SectionOrderKept ==
    Merged =>
        LET parsed == _parse_suno_lyrics(suno_lyrics)
            matched == MatchedKeys(parsed)
            tags == TagsOf(lyrics_output)
            \* the n-th block of a key with fewer than n Sections on it is left over
            leftover == {kn \in DictKeys(parsed) \X (1..Len(suno_lyrics)) :
                            /\ kn[2] <= Len(Blocks(parsed, kn[1]))
                            /\ kn[2] > Cardinality({i \in 1..Len(sections) :
                                                       matched[i] = kn[1]})}
            blocktags == {Blocks(parsed, kn[1])[kn[2]].tag : kn \in leftover}
        IN  /\ lyrics_output[1] = StyleHeader[1]
            /\ Len(tags) = Len(sections) + Cardinality(leftover)
            /\ \A i \in 1..Len(sections) : tags[i] = SectionTagLine(sections[i])[1]
            /\ \A j \in (Len(sections) + 1)..Len(tags) : tags[j] \in blocktags
            /\ ExampleScenario => lyrics_output = ExampleOutput

SectionOrderKeptWitness ==
    /\ Merged
    /\ ExampleScenario
    /\ lyrics_output = ExampleOutput

----------------------------------------------------------------------------
(* C3: a Section whose lowercased type is outside the hook/chorus/refrain   *)
(* cluster gets a body only from a block whose section_key is that type,    *)
(* and an empty body when there is no such block.                           *)
ConservativeMatch ==
    Merged =>
        LET parsed == _parse_suno_lyrics(suno_lyrics)
            body == BodiesOf(lyrics_output)
        IN  /\ Len(body) >= Len(sections)
            /\ \A i \in 1..Len(sections) :
                  LET key == Lower(sections[i].type)
                      blocks == Blocks(parsed, key)
                  IN  key \notin Cluster =>
                         \/ body[i] = EmptyStr
                         \/ \E n \in 1..Len(blocks) : body[i] = blocks[n].content

ConservativeMatchWitness ==
    /\ Merged
    /\ LET parsed == _parse_suno_lyrics(suno_lyrics)
       IN  /\ DictKeys(parsed) = {<<"verse">>, <<"chorus">>}
           /\ Blocks(parsed, <<"verse">>)[1].content # EmptyStr
    /\ \E i \in 1..Len(sections) :
          /\ sections[i].type = <<"Bridge">>
          /\ BodiesOf(lyrics_output)[i] = EmptyStr

----------------------------------------------------------------------------
(* C4: a Hook Section gets the next unconsumed [Chorus] block when the      *)
(* pasted lyrics hold no [Hook] block and a [Chorus] block is unconsumed.   *)
HookCase(parsed, counters, i) ==
    /\ Lower(sections[i].type) = <<"hook">>
    /\ <<"hook">> \notin DictKeys(parsed)
    /\ <<"chorus">> \in DictKeys(parsed)
    /\ CounterGet(counters[i], <<"chorus">>) < Len(Blocks(parsed, <<"chorus">>))

HookBorrowsChorus ==
    Merged =>
        LET parsed == _parse_suno_lyrics(suno_lyrics)
            counters == CountersBefore(parsed)
            body == BodiesOf(lyrics_output)
        IN  /\ Len(body) >= Len(sections)
            /\ \A i \in 1..Len(sections) :
                  HookCase(parsed, counters, i) =>
                     body[i] = Blocks(parsed, <<"chorus">>)
                                  [CounterGet(counters[i], <<"chorus">>) + 1].content

HookBorrowsChorusWitness ==
    /\ Merged
    /\ LET parsed == _parse_suno_lyrics(suno_lyrics)
           counters == CountersBefore(parsed)
       IN  \E i \in 1..Len(sections) :
              /\ HookCase(parsed, counters, i)
              /\ CounterGet(counters[i], <<"chorus">>) = 1
              /\ Blocks(parsed, <<"chorus">>)[1].content = EmptyStr
              /\ BodiesOf(lyrics_output)[i] = <<HelloWorld>>

----------------------------------------------------------------------------
(* The pasted text read block by block, in pasted order *)

SourceBlocks(text) ==
    LET t == StripText(text)
        tags == TagsOf(t)
        body == BodiesOf(t)
        all == [n \in 1..Len(tags) |->
                   [key |-> TagKey(StripLine(tags[n], Whitespace)),
                    tag |-> StripLine(tags[n], Whitespace),
                    content |-> body[n]]]
        named == {n \in 1..Len(all) : all[n].key # <<>>}
    IN  [m \in 1..Cardinality(named) |-> all[NthOf(named, m)]]

\* how many of the first n source blocks carry the key of the n-th
Occurrence(src, n) == Cardinality({m \in 1..n : src[m].key = src[n].key})

----------------------------------------------------------------------------
(* C5: every block no Section consumed is appended after the Sections with  *)
(* its tag line verbatim, and the appended blocks keep the relative order   *)
(* they have in the pasted text, across section_keys too.                   *)
LeftoverInSourceOrder ==
    Merged =>
        LET parsed == _parse_suno_lyrics(suno_lyrics)
            matched == MatchedKeys(parsed)
            src == SourceBlocks(suno_lyrics)
            tags == TagsOf(lyrics_output)
            body == BodiesOf(lyrics_output)
            left == {n \in 1..Len(src) :
                        Occurrence(src, n) >
                           Cardinality({i \in 1..Len(sections) : matched[i] = src[n].key})}
        IN  /\ Len(tags) = Len(sections) + Cardinality(left)
            /\ \A m \in 1..Cardinality(left) :
                  /\ tags[Len(sections) + m] = src[NthOf(left, m)].tag
                  /\ body[Len(sections) + m] = src[NthOf(left, m)].content

----------------------------------------------------------------------------
(* C6: a Section of the hook/chorus/refrain cluster with no unconsumed      *)
(* block of its own key left, while a synonym key has one, consumes the     *)
(* next unconsumed block of such a synonym key.                             *)
HasUnconsumed(parsed, counters, k) ==
    /\ k \in DictKeys(parsed)
    /\ CounterGet(counters, k) < Len(Blocks(parsed, k))

SynonymWhenExhausted ==
    Merged =>
        LET parsed == _parse_suno_lyrics(suno_lyrics)
            counters == CountersBefore(parsed)
            body == BodiesOf(lyrics_output)
        IN  \A i \in 1..Len(sections) :
               LET key == Lower(sections[i].type)
                   free == IF key \in Cluster
                           THEN {k \in {SYNONYMS[key][1], SYNONYMS[key][2]} :
                                    HasUnconsumed(parsed, counters[i], k)}
                           ELSE {}
               IN  (key \in Cluster /\ ~HasUnconsumed(parsed, counters[i], key)
                       /\ free # {}) =>
                      \E k \in free :
                         body[i] = Blocks(parsed, k)[CounterGet(counters[i], k) + 1].content

----------------------------------------------------------------------------
(* C7: the merge normalizes a Section's type by the parser's rule           *)
(* (lowercase, trailing numeral stripped) before matching, so a Section     *)
(* 'Verse 2' consumes from the blocks of key 'verse'.                       *)
NormalizedType(type) ==
    StripLine(StripTrailingNumber(Lower(StripLine(type, Whitespace))), Whitespace)

NumberedTypeNormalized ==
    Merged =>
        LET parsed == _parse_suno_lyrics(suno_lyrics)
            counters == CountersBefore(parsed)
            body == BodiesOf(lyrics_output)
        IN  \A i \in 1..Len(sections) :
               LET key == NormalizedType(sections[i].type)
               IN  HasUnconsumed(parsed, counters[i], key) =>
                      body[i] = Blocks(parsed, key)[CounterGet(counters[i], key) + 1].content

----------------------------------------------------------------------------
(* The Style string generate_outputs had before truncating it *)
AssembledStyle ==
    IF ~(use_llm /\ api_key # "") THEN JoinCommaSpace(style_parts) ELSE cache_entry

----------------------------------------------------------------------------
(* C8: on the static path and on the LLM path, fresh or cached,             *)
(* generate_outputs returns a style of at most MAX_STYLE_LENGTH characters. *)
StyleWithinCap == Done => Len(style_output) <= MAX_STYLE_LENGTH

StyleWithinCapWitness ==
    /\ Done
    /\ use_llm /\ api_key # "" /\ cached
    /\ Len(AssembledStyle) > MAX_STYLE_LENGTH
    /\ RFindCommaSpace(Prefix(AssembledStyle, MAX_STYLE_LENGTH)) = -1
    /\ Len(style_output) = MAX_STYLE_LENGTH

----------------------------------------------------------------------------
(* C9: a style longer than 1000 characters is cut at the last ", " of its   *)
(* first 1000 characters whenever that occurrence is at or after index 500, *)
(* and is otherwise cut to 1000 characters and stripped of trailing commas  *)
(* and spaces.                                                              *)
CutAtCommaFromMidpoint ==
    (Done /\ Len(AssembledStyle) > MAX_STYLE_LENGTH) =>
        LET truncated == Prefix(AssembledStyle, MAX_STYLE_LENGTH)
            last_comma == RFindCommaSpace(truncated)
        IN  IF last_comma >= MAX_STYLE_LENGTH \div 2
            THEN style_output = Prefix(AssembledStyle, last_comma)
            ELSE style_output = RStripLine(truncated, {",", " "})

----------------------------------------------------------------------------
(* C10: a final answer holding neither "REFINED STYLE:" nor                 *)
(* "REFINED LYRICS:" makes run_refinement_agent return refined_style and    *)
(* refined_lyrics equal to the style_text and lyrics_text arguments.        *)
NoMarkers ==
    /\ final_response # None
    /\ ~Contains(final_response, StyleMarker)
    /\ ~Contains(final_response, LyricsMarker)

OriginalsReturned ==
    (Done /\ NoMarkers) =>
        /\ refined_style = style_text
        /\ refined_lyrics = lyrics_text

----------------------------------------------------------------------------
(* C11: run_refinement_agent terminates and issues at most max_rounds + 1   *)
(* chat-completion requests: while the loop runs every request so far was   *)
(* a tool round (requests = round_num < max_rounds), the call always leaves *)
(* the loop, and at most one further request follows the last round.        *)
Returned == pc \in {"done", "raised"}

RequestsBounded ==
    /\ requests <= max_rounds + 1
    /\ round_num <= max_rounds
    /\ requests <= round_num + 2
    /\ pc = "loop" => requests = round_num /\ round_num < max_rounds
                      /\ final_response = None

TerminatesWithBoundedRequests == []RequestsBounded /\ <>Returned

\* the longest call: ten tool rounds and the forced final request
TerminatesWithBoundedRequestsWitness ==
    /\ Returned
    /\ round_num = max_rounds
    /\ requests = max_rounds + 1

----------------------------------------------------------------------------
(* C12: an LLM generation whose selections hash is in the cache returns the *)
(* cached text with cached = TRUE and issues no request; one whose hash is  *)
(* absent issues exactly one request, stores the answer under the hash and  *)
(* returns it with cached = FALSE; and the call right after such a miss is  *)
(* a hit that issues no request.                                            *)
HashPresent == cache_entry # NoEntry

CacheHitOrSingleRequest ==
    [][ /\ (pc' \in {"hit", "miss"} /\ HashPresent) =>
              /\ pc' = "hit"
              /\ cached' = TRUE
              /\ requests' = requests
              /\ cache_entry' = cache_entry
              /\ style_output' = TruncateStyle(cache_entry)
        /\ (pc' \in {"hit", "miss"} /\ ~HashPresent) =>
              /\ pc' = "miss"
              /\ cached' = FALSE
              /\ requests' = requests + 1
              /\ cache_entry' = StripLine(llm_reply', Whitespace)
              /\ style_output' = TruncateStyle(cache_entry')
        /\ (pc = "miss" /\ pc' \in {"hit", "miss", "raised"}) =>
              /\ pc' = "hit"
              /\ requests' = requests
      ]_vars

----------------------------------------------------------------------------
(* C13: when the chat-completion request of a Generate in LLM mode with an  *)
(* API key raises, generation does not fail: the Style output is the local  *)
(* assembler's output for the same selections.                              *)
RequestFailed == llm_reply = RequestError

FailedRequestFallsBack ==
    RequestFailed =>
        /\ pc # "raised"
        /\ style_output = StaticStyle

----------------------------------------------------------------------------
(* C19: a Generate in LLM mode without an API key shows the user a message  *)
(* and still produces the Style and Lyrics outputs of the static assembler  *)
(* for the same selections, with no request and no cache write.             *)
MissingKeyFallsBack ==
    [][ pc' = "no_key" =>
          /\ notice' # NoticeNone
          /\ style_output' = StaticStyle
          /\ lyrics_output' = _build_lyrics_output(sections, suno_lyrics, lyric_template)
          /\ cached' = FALSE
          /\ requests' = requests
          /\ cache_entry' = cache_entry
      ]_vars

----------------------------------------------------------------------------
(* C14: _parse_suno_lyrics returns no block whose normalized tag name is    *)
(* style or end, so a pasted [Style] or [End] tag line is neither matched   *)
(* to a Section nor appended after the Sections in the Lyrics output.       *)
MetadataKeys == {<<"style">>, <<"end">>}

MetadataTagsExcluded ==
    Merged =>
        LET parsed == _parse_suno_lyrics(suno_lyrics)
            tags == TagsOf(lyrics_output)
        IN  /\ DictKeys(parsed) \cap MetadataKeys = {}
            /\ \A n \in (Len(sections) + 1)..Len(tags) :
                   TagKey(tags[n]) \notin MetadataKeys

----------------------------------------------------------------------------
----------------------------------------------------------------------------
(* C16: writing the blocks _parse_suno_lyrics returned back as text, each   *)
(* as its tag line followed by its content, and parsing that text again     *)
(* gives the same blocks: same section_keys, tags and contents, same order. *)
RECURSIVE SerializeBlocks(_)
SerializeBlocks(blocks) ==
    IF blocks = <<>> THEN <<>>
    ELSE << <<blocks[1].tag>>, blocks[1].content >> \o SerializeBlocks(Tail(blocks))

RECURSIVE SerializeEntries(_, _)
SerializeEntries(parsed, i) ==
    IF i > Len(parsed) THEN <<>>
    ELSE SerializeBlocks(parsed[i].blocks) \o SerializeEntries(parsed, i + 1)

Serialize(parsed) == JoinLines(SerializeEntries(parsed, 1))

ParseRoundTrip ==
    Done =>
        LET parsed == _parse_suno_lyrics(suno_lyrics)
        IN  _parse_suno_lyrics(Serialize(parsed)) = parsed

\* interleaved keys, a numbered tag and an empty block: the serialized text
\* differs from the pasted one and parses to the same blocks
ParseRoundTripWitness ==
    /\ Done
    /\ suno_lyrics = <<VerseTag, TagLine(<<"Verse", " ", "2">>), HelloWorld, ChorusTag>>
    /\ LET parsed == _parse_suno_lyrics(suno_lyrics)
       IN  /\ Len(parsed) = 2
           /\ Len(parsed[1].blocks) = 2
           /\ parsed[1].blocks[2].tag = TagLine(<<"Verse", " ", "2">>)
           /\ Serialize(parsed) # suno_lyrics
           /\ _parse_suno_lyrics(Serialize(parsed)) = parsed

----------------------------------------------------------------------------
(* C17: the history is a sequence: save_song appends exactly one record and *)
(* leaves the earlier records and their order alone; delete_song(i) removes *)
(* exactly the record at index i when 0 <= i < length, and changes nothing  *)
(* for any other index.                                                     *)
HistoryIsSequence ==
    [][ /\ pc'.op = "save_song" =>
              /\ Len(history') = Len(history) + 1
              /\ SubSeq(history', 1, Len(history)) = history
        /\ pc'.op = "delete_song" =>
              LET i == pc'.index
              IN  IF 0 <= i /\ i < Len(history)
                  THEN /\ Len(history') = Len(history) - 1
                       /\ \A j \in 1..Len(history') :
                             history'[j] = IF j <= i THEN history[j] ELSE history[j + 1]
                  ELSE history' = history
      ]_vars

\* two saves, then delete_song(0): the second record is the one left; or a
\* delete_song(-1) on one record, which leaves it
HistoryIsSequenceWitness ==
    /\ pc.op = "delete_song"
    /\ Len(history) = 1
    /\ \/ pc.index = 0 /\ history[1].timestamp = 1 /\ ops = 3
       \/ pc.index = -1 /\ ops = 2

----------------------------------------------------------------------------
(* C18: after any sequence of set_cached calls the cache holds at most      *)
(* MAX_CACHE_SIZE entries; a call drops entries only when it overflows the  *)
(* cap, the dropped ones are the oldest in insertion order, and the key     *)
(* just written is kept with its prompt.                                    *)
KeySeq(c) == [i \in 1..Len(c) |-> c[i].key]

CacheCappedOldestFirst ==
    /\ [](Len(cache) <= MAX_CACHE_SIZE)
    /\ [][ pc'.op = "set_cached" =>
              LET key == pc'.key
                  old == KeySeq(cache)
                  new == KeySeq(cache')
                  fresh == key \notin CacheKeys(cache)
                  kept == IF fresh THEN SubSeq(new, 1, Len(new) - 1) ELSE new
                  dropped == Len(old) - Len(kept)
              IN  /\ Len(new) >= 1
                  /\ \E i \in 1..Len(cache') :
                        cache'[i].key = key /\ cache'[i].prompt = pc'.prompt
                  /\ fresh => new[Len(new)] = key
                  /\ dropped >= 0
                  /\ kept = SubSeq(old, dropped + 1, Len(old))
                  /\ dropped > 0 => Len(new) = MAX_CACHE_SIZE
          ]_vars

\* a new key written into a full cache: the first entry went, the new key
\* is last
CacheCappedOldestFirstWitness ==
    /\ pc.op = "set_cached"
    /\ pc.key = MAX_CACHE_SIZE + 1
    /\ Len(cache) = MAX_CACHE_SIZE
    /\ cache[1].key = 2
    /\ cache[MAX_CACHE_SIZE].key = MAX_CACHE_SIZE + 1

----------------------------------------------------------------------------
(* C20: after any sequence of Add, Import Sections from Lyrics, AI Suggest  *)
(* Instruments, Clear All Instruments, move up, move down, remove and type  *)
(* or instrument edits, the Sections have pairwise distinct ids, and a      *)
(* Section keeps its id while it stays in the list: an id in the list is    *)
(* either the one the Section had before or one never handed out before,    *)
(* and a handler that neither adds, removes nor imports leaves every id     *)
(* with its Section.                                                        *)
IdSeq(secs) == [i \in 1..Len(secs) |-> secs[i].id]

DistinctIds(secs) ==
    \A i, j \in 1..Len(secs) : i # j => secs[i].id # secs[j].id

IdsUniqueAndStable ==
    /\ [](DistinctIds(song_sections))
    /\ [][ LET old == IdSeq(song_sections)
               new == IdSeq(song_sections')
               op == pc'.op
           IN  /\ IdsOf(song_sections') \subseteq IdsOf(song_sections) \cup (Nat \ issued)
               /\ op \in {"suggest", "clear", "edit_type", "edit_instruments"} => new = old
               /\ op = "up" => new = Swap(old, pc'.i + 1, pc'.i)
                               /\ song_sections'[pc'.i] = song_sections[pc'.i + 1]
               /\ op = "down" => new = Swap(old, pc'.i + 1, pc'.i + 2)
                                 /\ song_sections'[pc'.i + 2] = song_sections[pc'.i + 1]
               /\ op = "remove" => new = Pop(old, pc'.i)
               /\ op = "add" => SubSeq(new, 1, Len(old)) = old /\ Len(new) = Len(old) + 1
               /\ op = "import" => \/ song_sections' = song_sections
                                   \/ IdsOf(song_sections') \cap issued = {}
         ]_vars

\* Import of a text with two section tags, then Add: three Sections whose
\* ids are new, none of them one of the five default ones
IdsUniqueAndStableWitness ==
    /\ pc.op = "add"
    /\ ops = 2
    /\ IdSeq(song_sections) = <<6, 7, 8>>
    /\ song_sections[1] = UISection(6, <<"Verse">>, <<"guitar">>)
    /\ song_sections[2] = UISection(7, <<"Verse">>, <<>>)

----------------------------------------------------------------------------
(* C21: run_refinement_agent issues the extra final request without tools   *)
(* if and only if all max_rounds rounds were used up by responses asking    *)
(* for tool calls; a run whose loop ended on a response without tool calls  *)
(* never issues it.                                                         *)
\* requests made inside the loop: one per tool round, plus the one whose
\* response had no tool calls when the loop ended early
LoopRequests == IF round_num < max_rounds THEN round_num + 1 ELSE round_num

ForcedRequestIssued == requests = LoopRequests + 1

ForcedOnlyAfterAllRounds ==
    pc = "done" =>
        /\ requests \in {LoopRequests, LoopRequests + 1}
        /\ ForcedRequestIssued <=> round_num = max_rounds

----------------------------------------------------------------------------
(* C22: with an API key and requests that succeed, run_refinement_agent     *)
(* never raises, whatever the model returns: a tool call with an unknown    *)
(* name, with arguments that are not valid JSON or with a required argument *)
(* missing still gets a tool result fed back, and a final answer with empty *)
(* or null content yields the original inputs.                              *)
\* the tool message that answers the call, if there is one
Answered(calls, k, i) ==
    /\ k + i <= Len(messages)
    /\ messages[k + i].role = "tool"
    /\ messages[k + i].tool_call_id = calls[i].id

NeverRaises ==
    /\ pc # "raised"
    /\ \A k \in 1..Len(messages) :
          messages[k].role = "assistant" =>
              \A i \in 1..Len(messages[k].tool_calls) :
                  Answered(messages[k].tool_calls, k, i)
    /\ pc = "done" /\ Falsy(final_response) =>
          refined_style = style_text /\ refined_lyrics = lyrics_text

----------------------------------------------------------------------------
(* C23: in every round whose response requests tool calls, one assistant    *)
(* message carrying all requested calls is appended, followed by exactly    *)
(* one tool message per call with the matching tool_call_id, in call order, *)
(* before the next request is issued; the system and user messages stay the *)
(* first two, and no message is ever removed.                               *)
\* the round that took messages from old to new appended an assistant
\* message and one tool message per call of it, in call order
RoundAppended(old, new) ==
    LET k == Len(old) + 1
    IN  /\ Len(new) > Len(old)
        /\ new[k].role = "assistant"
        /\ Len(new) = k + Len(new[k].tool_calls)
        /\ \A i \in 1..Len(new[k].tool_calls) :
              /\ new[k + i].role = "tool"
              /\ new[k + i].tool_call_id = new[k].tool_calls[i].id

----------------------------------------------------------------------------
(* C25: the refined Style text returned by run_refinement_agent is never    *)
(* longer than 1000 characters, also when the REFINED STYLE section of the  *)
(* model's answer is longer.                                                *)
\* every token of a text is at least one character, so a text of more than
\* MAX_STYLE_LENGTH tokens is longer than MAX_STYLE_LENGTH characters
RefinedStyleWithinCap ==
    pc = "done" /\ Len(style_text) <= MAX_STYLE_LENGTH =>
        Len(refined_style) <= MAX_STYLE_LENGTH

----------------------------------------------------------------------------
(* C24: a Section whose type is outside SECTION_TYPES, as Import creates    *)
(* from a tag such as [End] or [Hook], keeps that type verbatim across the  *)
(* reruns of the page until the user selects another type for it.           *)
ImportedTypes == TypesOf(parse_lyrics_to_sections(suno_lyrics, {}))

ImportedTypeKept ==
    pc = [op |-> "import"] /\ notice = "Imported sections from lyrics" =>
        TypesOf(song_sections) = ImportedTypes

----------------------------------------------------------------------------
(* C26: with no lyric template, every block the parser returned is used     *)
(* exactly once: either one Section consumed it, or it is appended once     *)
(* after the Sections; no block is duplicated and none is dropped.          *)
\* the Sections matched to key k, and how many blocks of k they consume
SectionsOn(matched, k) == {i \in 1..Len(sections) : matched[i] = k}

Consumed(parsed, matched, k) ==
    Min({Cardinality(SectionsOn(matched, k)), Len(Blocks(parsed, k))})

\* the blocks no Section consumed, key by key in the order of the dict
RECURSIVE Unconsumed(_, _, _)
Unconsumed(parsed, matched, i) ==
    IF i > Len(parsed) THEN <<>>
    ELSE SubSeq(parsed[i].blocks,
                Consumed(parsed, matched, parsed[i].key) + 1, Len(parsed[i].blocks))
         \o Unconsumed(parsed, matched, i + 1)

EveryBlockUsedOnce ==
    Merged =>
        LET parsed == IF suno_lyrics # EmptyStr THEN _parse_suno_lyrics(suno_lyrics) ELSE <<>>
            matched == MatchedKeys(parsed)
            tags == TagsOf(lyrics_output)
            body == BodiesOf(lyrics_output)
            rest == Unconsumed(parsed, matched, 1)
        IN  /\ Len(tags) = Len(sections) + Len(rest)
            /\ \A i \in 1..Len(sections) :
                  LET k == matched[i]
                      n == Cardinality({j \in SectionsOn(matched, k) : j <= i})
                  IN  body[i] = IF k # None /\ n <= Len(Blocks(parsed, k))
                                THEN Blocks(parsed, k)[n].content
                                ELSE EmptyStr
            /\ \A m \in 1..Len(rest) :
                  /\ tags[Len(sections) + m] = rest[m].tag
                  /\ body[Len(sections) + m] = rest[m].content

EveryBlockUsedOnceWitness ==
    /\ Merged
    /\ sections = <<Section(<<"Verse">>, <<"guitar">>), Section(<<"Outro">>, <<>>)>>
    /\ suno_lyrics = <<VerseTag, HelloWorld, VerseTag, ByeNow>>
    /\ Len(TagsOf(lyrics_output)) = 3
    /\ BodiesOf(lyrics_output)[1] = <<HelloWorld>>
    /\ BodiesOf(lyrics_output)[2] = EmptyStr
    /\ TagsOf(lyrics_output)[3] = VerseTag
    /\ BodiesOf(lyrics_output)[3] = <<ByeNow>>

----------------------------------------------------------------------------
(* C27: with no lyric template, no pasted lyric text is lost: every line of *)
(* suno_lyrics that is neither blank nor a tag appears in the Lyrics        *)
(* output, text before the first tag included.                              *)
LyricLines(text) ==
    {i \in 1..Len(text) :
        /\ StripLine(text[i], Whitespace) # <<>>
        /\ ~IsTagLine(StripLine(text[i], Whitespace))}

NoLyricTextLost ==
    Merged =>
        \A i \in LyricLines(suno_lyrics) :
            \E j \in 1..Len(lyrics_output) :
                StripLine(lyrics_output[j], Whitespace) = StripLine(suno_lyrics[i], Whitespace)

----------------------------------------------------------------------------
(* storage.py and cache.py used by two sessions at once.  save_song and     *)
(* set_cached load the file, change their copy and write it back, with no   *)
(* lock in between, so the steps of two calls may interleave.  local[call]  *)
(* holds where the call is and the list or dict it loaded.                  *)

SaveCalls == {"save A", "save B"}
CacheCalls == {"cache A", "cache B"}

TitleOf(call) == IF call = "save A" THEN "Song A" ELSE "Song B"

KeyOf(call) == IF call = "cache A" THEN MAX_CACHE_SIZE + 1 ELSE MAX_CACHE_SIZE + 2

InitRace ==
    /\ pc = NoCall
    /\ NoLyricInputs
    /\ NoStyleInputs
    /\ NoRefinerInputs
    /\ notice = NoticeNone
    /\ ops = 0
    /\ history \in {<<>>, <<Song("Song 0", "style 1", "", 0)>>}
    /\ cache \in {FilledCache(0), FilledCache(MAX_CACHE_SIZE)}
    /\ song_sections = <<>>
    /\ issued = {}
    /\ local = [call \in SaveCalls \cup CacheCalls |->
                   [at |-> "called", loaded |-> <<>>]]
    /\ NoIterInputs
    /\ NoPromptInputs

RaceFrame(call, step) ==
    /\ pc' = [op |-> step, call |-> call]
    /\ ops' = ops + 1
    /\ UNCHANGED <<lyricsVars, styleVars, refinerVars>>
    /\ UNCHANGED <<notice, song_sections, issued>>
    /\ UNCHANGED <<iterVars, promptVars>>

\* save_song, line 32: songs = load_history()
save_song_load ==
    \E call \in SaveCalls :
        /\ local[call].at = "called"
        /\ local' = [local EXCEPT ![call] = [at |-> "loaded", loaded |-> history]]
        /\ UNCHANGED <<history, cache>>
        /\ RaceFrame(call, "load_history")

\* save_song_dump appending to the file as it is now, as under a lock
save_song_dump_Locked ==
    \E call \in SaveCalls :
        /\ local[call].at = "loaded"
        /\ history' = Append(history, Song(TitleOf(call), "style 1", "", ops))
        /\ local' = [local EXCEPT ![call].at = "returned"]
        /\ UNCHANGED cache
        /\ RaceFrame(call, "json.dump")

\* save_song, lines 33-42: the record is appended to the loaded list and the
\* list is written over the file
save_song_dump ==
    \E call \in SaveCalls :
        /\ local[call].at = "loaded"
        /\ history' = Append(local[call].loaded, Song(TitleOf(call), "style 1", "", ops))
        /\ local' = [local EXCEPT ![call].at = "returned"]
        /\ UNCHANGED cache
        /\ RaceFrame(call, "json.dump")

\* set_cached, line 38: cache = _load_cache()
set_cached_load ==
    \E call \in CacheCalls :
        /\ local[call].at = "called"
        /\ local' = [local EXCEPT ![call] = [at |-> "loaded", loaded |-> cache]]
        /\ UNCHANGED <<history, cache>>
        /\ RaceFrame(call, "_load_cache")

\* set_cached, lines 39-40: cache[key] = prompt; _save_cache(cache)
set_cached_save ==
    \E call \in CacheCalls :
        /\ local[call].at = "loaded"
        /\ cache' = _save_cache(CacheSet(local[call].loaded, KeyOf(call), "p"))
        /\ local' = [local EXCEPT ![call].at = "returned"]
        /\ UNCHANGED history
        /\ RaceFrame(call, "_save_cache")

NextRace == save_song_load \/ save_song_dump \/ set_cached_load \/ set_cached_save

SpecRace == InitRace /\ [][NextRace]_vars

----------------------------------------------------------------------------
(* C28: history and cache updates are unlocked read-modify-write sequences: *)
(* when two save_song calls (or two set_cached calls) interleave so that    *)
(* each loads the file before the other writes it, the final file lacks the *)
(* record one of them added, whereas an execution in which one call loads   *)
(* after the other has written keeps both records.                          *)
HasSong(songs, title) == \E i \in 1..Len(songs) : songs[i].title = title

SavesReturned == \A call \in SaveCalls : local[call].at = "returned"

CachesReturned == \A call \in CacheCalls : local[call].at = "returned"

\* one of the two calls loaded the file after the other had written it
SavesInTurn ==
    \/ HasSong(local["save A"].loaded, "Song B")
    \/ HasSong(local["save B"].loaded, "Song A")

CachesInTurn ==
    \/ KeyOf("cache B") \in CacheKeys(local["cache A"].loaded)
    \/ KeyOf("cache A") \in CacheKeys(local["cache B"].loaded)

LostUpdateIffInterleaved ==
    /\ SavesReturned =>
          /\ HasSong(history, "Song A") \/ HasSong(history, "Song B")
          /\ (HasSong(history, "Song A") /\ HasSong(history, "Song B")) <=> SavesInTurn
    /\ CachesReturned =>
          /\ KeyOf("cache A") \in CacheKeys(cache) \/ KeyOf("cache B") \in CacheKeys(cache)
          /\ ({KeyOf("cache A"), KeyOf("cache B")} \subseteq CacheKeys(cache)) <=> CachesInTurn

LostUpdateWitness ==
    /\ SavesReturned /\ CachesReturned
    /\ ~SavesInTurn /\ ~CachesInTurn
    /\ ~HasSong(history, "Song A") /\ HasSong(history, "Song B")
    /\ KeyOf("cache A") \in CacheKeys(cache) /\ KeyOf("cache B") \notin CacheKeys(cache)

----------------------------------------------------------------------------
(* app.py, Iterative Refinement: the session kept in iter_active,           *)
(* iter_suggestions and iter_versions, and the buttons that change it.  A   *)
(* request to the model either returns or raises; the handlers catch the    *)
(* exception and show it.                                                   *)

MaxIterClicks == 4

\* an entry of iter_versions
Version(n, style, lyrics, shown, applied, feedback) ==
    [version |-> n, style |-> style, lyrics |-> lyrics, suggestions_shown |-> shown,
     suggestions_applied |-> applied, user_feedback |-> feedback]

Suggestion(id) == [id |-> id]

\* what generate_suggestions may return (valid[:5], possibly empty)
SuggestionLists ==
    { <<>>, <<Suggestion("s1"), Suggestion("s2")>> }

\* the suggestions whose checkbox is ticked
Ticked(suggestions) ==
    {<<>>, SubSeq(suggestions, 1, 1)}

Feedbacks == {"", "more bass"}

\* what apply_suggestions may return for a text
Refinements(text) == {text, Append(text, "warm")}

InitIter ==
    /\ pc = NoCall
    /\ sections = <<>>
    /\ suno_lyrics = EmptyStr
    /\ lyric_template = "None"
    /\ lyrics_output \in {NoOutput, <<VerseTag>>}
    /\ use_llm = FALSE
    /\ api_key \in {"", "sk-test"}
    /\ style_parts = <<Word(2)>>
    /\ llm_reply = <<>>
    /\ cache_entry = NoEntry
    /\ style_output \in {NoOutput, <<"lofi">>}
    /\ cached = FALSE
    /\ NoRefinerInputs
    /\ notice = NoticeNone
    /\ ops = 0
    /\ history = <<>>
    /\ cache = <<>>
    /\ song_sections = <<>>
    /\ issued = {}
    /\ local = <<>>
    /\ NoIterInputs
    /\ NoPromptInputs

IterFrame(op) ==
    /\ ops < MaxIterClicks
    /\ ops' = ops + 1
    /\ pc' = op
    /\ UNCHANGED <<sections, suno_lyrics, lyric_template>>
    /\ UNCHANGED <<use_llm, api_key, style_parts, llm_reply, cache_entry, cached>>
    /\ UNCHANGED refinerVars
    /\ UNCHANGED <<history, cache, song_sections, issued, local, promptVars>>

\* the suggestions panel is drawn (app.py 833)
PanelShown == iter_active /\ iter_suggestions # <<>>

\* a call of generate_suggestions inside try/except: the list it returns is
\* stored, or the exception is shown and the list kept
Analyze(failure) ==
    \/ /\ iter_suggestions' \in SuggestionLists
       /\ notice' = NoticeNone
    \/ /\ UNCHANGED iter_suggestions
       /\ notice' = failure

\* Refine with Suggestions (app.py 792-824)
RefineWithSuggestions ==
    /\ ~iter_active
    /\ IF api_key = ""
       THEN /\ notice' = NoticeKeyRequired
            /\ UNCHANGED iterVars
       ELSE IF style_output = NoOutput
       THEN /\ notice' = "Generate a prompt first."
            /\ UNCHANGED iterVars
       ELSE /\ iter_versions' = << Version(0, style_output, lyrics_output, <<>>, <<>>, "") >>
            /\ \/ /\ iter_suggestions' \in SuggestionLists
                  /\ iter_active' = TRUE
                  /\ notice' = NoticeNone
               \/ /\ UNCHANGED <<iter_suggestions, iter_active>>
                  /\ notice' = "Analysis failed"
    /\ UNCHANGED <<style_output, lyrics_output>>
    /\ IterFrame([op |-> "refine_with_suggestions"])

\* Close Suggestions (app.py 825-830)
CloseSuggestions ==
    /\ iter_active
    /\ iter_active' = FALSE
    /\ iter_suggestions' = <<>>
    /\ iter_versions' = <<>>
    /\ UNCHANGED <<style_output, lyrics_output, notice>>
    /\ IterFrame([op |-> "close"])

\* Apply Selected (app.py 897-944)
ApplySelected ==
    /\ PanelShown
    /\ \E selected \in Ticked(iter_suggestions), user_feedback \in Feedbacks :
          LET current == iter_versions[Len(iter_versions)]
              current_version == Len(iter_versions) - 1
          IN  IF selected = <<>> /\ user_feedback = ""
              THEN /\ notice' = "Select at least one suggestion or provide feedback."
                   /\ UNCHANGED iterVars
              ELSE \/ /\ notice' = "Apply failed"
                      /\ UNCHANGED iterVars
                   \/ \E style \in Refinements(current.style) :
                         /\ iter_versions' =
                               Append(iter_versions,
                                      Version(current_version + 1, style, current.lyrics,
                                              iter_suggestions,
                                              [i \in 1..Len(selected) |-> selected[i].id],
                                              user_feedback))
                         /\ Analyze("Apply failed")
                         /\ UNCHANGED iter_active
    /\ UNCHANGED <<style_output, lyrics_output>>
    /\ IterFrame([op |-> "apply"])

\* Re-analyze (app.py 946-962)
ReAnalyze ==
    /\ PanelShown
    /\ Analyze("Analysis failed")
    /\ UNCHANGED <<iter_versions, iter_active, style_output, lyrics_output>>
    /\ IterFrame([op |-> "re_analyze"])

\* Accept & Close (app.py 965-974)
AcceptAndClose ==
    /\ PanelShown
    /\ style_output' = iter_versions[Len(iter_versions)].style
    /\ lyrics_output' = iter_versions[Len(iter_versions)].lyrics
    /\ iter_active' = FALSE
    /\ iter_suggestions' = <<>>
    /\ iter_versions' = <<>>
    /\ UNCHANGED notice
    /\ IterFrame([op |-> "accept_close"])

\* RevertVersion that keeps the versions before the one clicked
RevertVersionBefore ==
    /\ PanelShown
    /\ Len(iter_versions) > 1
    /\ \E k \in 1..Len(iter_versions) :
          LET ver_num == iter_versions[k].version
          IN  /\ iter_versions' = SubSeq(iter_versions, 1, ver_num)
              /\ Analyze("Analysis failed")
              /\ IterFrame([op |-> "revert", ver_num |-> ver_num])
    /\ UNCHANGED <<iter_active, style_output, lyrics_output>>

\* a button of the Version History (app.py 977-1016)
RevertVersion ==
    /\ PanelShown
    /\ Len(iter_versions) > 1
    /\ \E k \in 1..Len(iter_versions) :
          LET ver_num == iter_versions[k].version
          IN  /\ iter_versions' = SubSeq(iter_versions, 1, ver_num + 1)
              /\ Analyze("Analysis failed")
              /\ IterFrame([op |-> "revert", ver_num |-> ver_num])
    /\ UNCHANGED <<iter_active, style_output, lyrics_output>>

NextIter ==
    \/ RefineWithSuggestions
    \/ CloseSuggestions
    \/ ApplySelected
    \/ ReAnalyze
    \/ AcceptAndClose
    \/ RevertVersion

SpecIter == InitIter /\ [][NextIter]_vars

----------------------------------------------------------------------------
(* C29: in the iterative-refinement session, after any sequence of Refine   *)
(* with Suggestions, Apply Selected, Re-analyze and version-revert clicks,  *)
(* failing requests included, whenever iter_active is true iter_versions is *)
(* non-empty, iter_versions[i]['version'] == i for every index i, and       *)
(* iter_versions[0] holds the Style and Lyrics outputs that were current    *)
(* when the session started.                                                *)
VersionsNumbered ==
    iter_active =>
        /\ iter_versions # <<>>
        /\ \A i \in 1..Len(iter_versions) : iter_versions[i].version = i - 1

OriginalKept ==
    /\ (~iter_active /\ iter_active') =>
          /\ iter_versions'[1].style = style_output
          /\ iter_versions'[1].lyrics = lyrics_output
    /\ (iter_active /\ iter_active') =>
          /\ iter_versions' # <<>>
          /\ iter_versions'[1] = iter_versions[1]

IterVersionsConsistent == []VersionsNumbered /\ [][OriginalKept]_vars

IterVersionsConsistentWitness ==
    /\ iter_active
    /\ pc = [op |-> "revert", ver_num |-> 1]
    /\ Len(iter_versions) = 2
    /\ iter_versions[1].style = <<"lofi">>
    /\ iter_versions[2].style = <<"lofi", "warm">>
    /\ notice = "Analysis failed"

----------------------------------------------------------------------------
(* prompt_generator/app.py: the prompt page.  A change of a widget runs the *)
(* script once from top to bottom; each action below is one such run.  A    *)
(* refined prompt is modelled by the prompt it was refined from.            *)

Selections(style_preset, replace_guitar) ==
    [style_preset |-> style_preset, replace_guitar |-> replace_guitar]

SelectionPool ==
    {Selections(p, g) : p \in {"Smooth Jazz", "Bebop"}, g \in BOOLEAN}

\* prompt_engine.build_prompt
build_prompt(style_preset, replace_guitar) ==
    <<"static", style_preset, IF replace_guitar THEN "guitar only" ELSE "">>

\* llm_generator.generate_prompt: the model's text, cached under the hash of
\* the selections
generate_prompt(sel) == <<"llm", sel.style_preset, sel.replace_guitar>>

\* what run_refinement_agent(prompt, key) returns
Refined(text) == <<"refined from", text>>

\* app.py 277-324: the prompts this run may generate
GeneratedPrompts(sel, llm, key) ==
    IF llm
    THEN IF key # ""
         THEN {generate_prompt(sel), build_prompt(sel.style_preset, sel.replace_guitar)}
         ELSE {build_prompt(sel.style_preset, FALSE)}
    ELSE {build_prompt(sel.style_preset, sel.replace_guitar)}

\* app.py 231-241: what is left of a session value once the selections were
\* compared with those of the previous run
AfterCompare(sel, value) == IF last_selections # sel THEN None ELSE value

\* one run of the script with the widgets at sel, llm and key
PageRun(sel, llm, key, refine_button, op) ==
    /\ selections' = sel
    /\ use_llm' = llm
    /\ api_key' = key
    /\ last_selections' = sel
    /\ shown_prompt' \in GeneratedPrompts(sel, llm, key)
    /\ IF refine_button /\ key = ""
       THEN /\ notice' = NoticeKeyRequired
            /\ refined_prompt' = AfterCompare(sel, refined_prompt)
            /\ refine_score' = AfterCompare(sel, refine_score)
            /\ refine_reasoning' = AfterCompare(sel, refine_reasoning)
       ELSE IF refine_button
       THEN \/ /\ notice' = NoticeNone
               /\ refined_prompt' = Refined(shown_prompt')
               /\ refine_score' = <<"score">>
               /\ refine_reasoning' = <<"reasoning">>
            \/ /\ notice' = "Error refining prompt"
               /\ refined_prompt' = AfterCompare(sel, refined_prompt)
               /\ refine_score' = AfterCompare(sel, refine_score)
               /\ refine_reasoning' = AfterCompare(sel, refine_reasoning)
       ELSE /\ notice' = NoticeNone
            /\ refined_prompt' = AfterCompare(sel, refined_prompt)
            /\ refine_score' = AfterCompare(sel, refine_score)
            /\ refine_reasoning' = AfterCompare(sel, refine_reasoning)
    /\ pc' = [op |-> op]
    /\ UNCHANGED <<lyricsVars, refinerVars>>
    /\ UNCHANGED <<style_parts, llm_reply, cache_entry, style_output, cached>>
    /\ UNCHANGED <<ops, history, cache, song_sections, issued, local, iterVars>>

\* the session after the first run of the page
InitPrompt ==
    /\ pc = NoCall
    /\ NoLyricInputs
    /\ use_llm = FALSE
    /\ api_key \in {"", "sk-test"}
    /\ style_parts = <<Word(2)>>
    /\ llm_reply = <<>>
    /\ cache_entry = NoEntry
    /\ style_output = NoOutput
    /\ cached = FALSE
    /\ NoRefinerInputs
    /\ notice = NoticeNone
    /\ ops = 0
    /\ history = <<>>
    /\ cache = <<>>
    /\ song_sections = <<>>
    /\ issued = {}
    /\ local = <<>>
    /\ NoIterInputs
    /\ selections \in SelectionPool
    /\ last_selections = selections
    /\ shown_prompt = build_prompt(selections.style_preset, selections.replace_guitar)
    /\ refined_prompt = None
    /\ refine_score = None
    /\ refine_reasoning = None

\* a selection widget is changed
ChangeSelection ==
    \E sel \in SelectionPool \ {selections} :
        PageRun(sel, use_llm, api_key, FALSE, "change_selection")

\* the Generation Mode radio is switched
SwitchMode ==
    \E llm \in BOOLEAN \ {use_llm} :
        PageRun(selections, llm, api_key, FALSE, "switch_mode")

\* the API key box is edited
EditApiKey ==
    \E key \in {"", "sk-test"} \ {api_key} :
        PageRun(selections, use_llm, key, FALSE, "edit_api_key")

\* Refine with Agent is clicked
RefineWithAgent ==
    \E sel \in {selections} :
        PageRun(sel, use_llm, api_key, TRUE, "refine_with_agent")

NextPrompt == ChangeSelection \/ SwitchMode \/ EditApiKey \/ RefineWithAgent

SpecPrompt == InitPrompt /\ [][NextPrompt]_vars

----------------------------------------------------------------------------
(* C30: in the prompt generator, a refined prompt is kept across a rerun    *)
(* only if the prompt generated in that rerun is the one it was refined     *)
(* from: any input change that changes the generated prompt, a selection    *)
(* change or a switch between Static and LLM mode, clears refined_prompt,   *)
(* refine_score and refine_reasoning before anything is displayed.          *)
RefinedOfShownPrompt ==
    /\ refined_prompt # None => refined_prompt = Refined(shown_prompt)
    /\ refined_prompt = None => refine_score = None /\ refine_reasoning = None
====
